---- MODULE Spec2Model ----
(***************************************************************************)
(* Verification model of the tools of aichallenge-2025:                    *)
(*   tools/osm_centerline_to_csv.py   (chain_centerlines)                  *)
(*   tools/lanelet2_bounds_to_csv.py  (OSMExtractor, main)                 *)
(*   tools/trajectory_raceline.py     (base_speed, the adjusted_speed loop) *)
(*   tools/edit_trajectory.py         (TrajectoryEditor)                   *)
(*   script/motion_analytics.py       (sync_topic)                         *)
(* A batch tool keeps its position in a pc variable and its inputs are     *)
(* drawn in the initial state from bounded sets; the editor is a set of    *)
(* callbacks, each taken as one step on an event drawn from a bounded set. *)
(***************************************************************************)
EXTENDS Integers, Sequences, FiniteSets, TLC

\* ------------------------------------------------------------------ bounds
NumNodes == 4
MaxLen == 3
MaxWays == 3
NumLiveNodes == 3

NodeIds == 1..NumNodes

\* bounds of the maps given to the extractor
NumMapNodes == 2
NumMapWays == 2
MaxNd == 2
MaxRelations == 2
MaxMembers == 2

\* ------------------------------------------------------- sequence helpers
Reverse(s) == [i \in 1..Len(s) |-> s[Len(s) + 1 - i]]

\* seq[:-1]
Front(s) == SubSeq(s, 1, Len(s) - 1)

Last(s) == s[Len(s)]

SeqsUpTo(S, n) == UNION {[1..k -> S] : k \in 0..n}

Range(s) == {s[i] : i \in 1..Len(s)}

\* ========================================================================
\* osm_centerline_to_csv.py : chain_centerlines
\* ========================================================================
VARIABLES
    way_nodes,            \* way id -> node id list (a dict: missing ids are outside DOMAIN)
    centerline_way_ids,   \* candidate centerline way ids, in input order
    sequences,            \* the usable node lists, in input order
    chained,              \* the polyline under construction
    used,                 \* used[i]: sequences[i] was consumed by the greedy loop
    dedup,                \* the returned polyline
    pc                    \* "start" | "loop" | "leftover" | "collapse" | "done" | "error";
                          \* around it "load" | "load_failed" and "open" | "rows" |
                          \* "exit" | "write_failed"

chainVars == <<way_nodes, centerline_way_ids, sequences, chained, used, dedup, pc>>

\* lanelet2_bounds_to_csv.py : OSMExtractor and the command around it
VARIABLES
    root,        \* the map document: [wellformed, node, way, relation]
    nodes,       \* self.nodes: node id -> <<lat, lon, local_x, local_y>>
    ways,        \* self.ways, in insertion order: [id, node_ids, tags]
    relations,   \* self.relations, in insertion order: [id, members, tags]
    rel_res,     \* extract_lane_bounds: the relation-based result
    bounds,      \* what extract_lane_bounds returned: role -> list of <<id, index, point>>
    info,        \* the strategy named on the [info] line
    files,       \* output files: name -> rows written under the header
    xpc,         \* "start" | "ready" | "parsed" | "extracted" | "exit" | "failed"
    node_keys,   \* the keys of self.nodes in insertion order
    origin_latlon,   \* self.origin_latlon: None or <<lat, lon>>
    raised,      \* the exception the last call on the extractor ended with, "" for none
    has_pyproj   \* _HAS_PYPROJ: whether the import at lines 11-15 succeeded

extractVars == <<root, nodes, ways, relations, rel_res, bounds, info, files, xpc,
                 node_keys, origin_latlon, raised, has_pyproj>>

\* trajectory_raceline.py : the speed profiler
VARIABLES
    npoints,          \* len(df): the points read from the raceline
    curvature,        \* line 19, in 1/1000 per metre; NaN where the formula gave 0/0
    base,             \* line 38: the base speed of the index handled last
    adjusted_speed,   \* line 34, in 1/10000 m/s
    speed,            \* df["speed"] as saved at lines 49-52
    ppc               \* "start" | "loop" | "done" | "failed"

profileVars == <<npoints, curvature, base, adjusted_speed, speed, ppc>>

\* osm_centerline_to_csv.py : load_map and write_csv around chain_centerlines
VARIABLES
    osm,       \* the map document given to load_map: [wellformed, node, way, relation]
    node_xy,   \* node id -> <<x, y>>
    pts,       \* write_csv: the stitched ids that have coordinates, with them
    out_csv,   \* the output file: [exists, rows], rows being those under the header
    error      \* the exception that ended the run, "" for none

centerVars == <<osm, node_xy, pts, out_csv, error>>

\* motion_analytics.py : sync_topic
VARIABLES
    data1,            \* the reference list: entries <<timestamp, k>>, sorted by timestamp
    data2,            \* the list to align: entries <<timestamp, k>>, sorted by timestamp
    idx2,             \* the index into data2, 1-based
    sync_data,        \* the list under construction
    result,           \* the returned list
    spc               \* "start" | "loop" | "done"

syncVars == <<data1, data2, idx2, sync_data, result, spc>>

\* edit_trajectory.py : TrajectoryEditor
VARIABLES
    xy,               \* self.xy: the point positions
    sp_mps,           \* self.sp_mps: the point speeds
    undo_stack,       \* snapshots <<xy, sp_mps>>
    redo_stack,       \* snapshots <<xy, sp_mps>>
    pressed,          \* self.pressed
    dragging_idx,     \* self.dragging_idx, 1-based, None when not dragging
    selected_idx,     \* self.selected_idx, 1-based, None when nothing is selected
    exc,              \* the exception the last callback ended with, "" when none
    save_csv,         \* the number of rows of the file written by _save, NotSaved before
    fig_open          \* the figure window is open

editorVars == <<xy, sp_mps, undo_stack, redo_stack, pressed, dragging_idx, selected_idx,
                exc, save_csv, fig_open>>

vars == <<chainVars, extractVars, profileVars, centerVars, syncVars, editorVars>>

othersOfChain == <<extractVars, profileVars, centerVars, syncVars, editorVars>>

othersOfExtract == <<chainVars, profileVars, centerVars, syncVars, editorVars>>

othersOfProfile == <<chainVars, extractVars, centerVars, syncVars, editorVars>>

othersOfCenter == <<extractVars, profileVars, syncVars, editorVars>>

othersOfSync == <<chainVars, extractVars, profileVars, centerVars, editorVars>>

othersOfEditor == <<chainVars, extractVars, profileVars, centerVars, syncVars>>

\* way_nodes.get(wid): the empty list stands for None, both are falsy at line 89
WayGet(wn, wid) == IF wid \in DOMAIN wn THEN wn[wid] ELSE <<>>

UsableOff(wn, wid) == Len(WayGet(wn, wid)) >= 1

\* line 89: seq and len(seq) >= 2
Usable(wn, wid) == Len(WayGet(wn, wid)) >= 2

\* lines 86-90: the usable node lists of the candidates, in input order
RECURSIVE Collect(_, _)
Collect(wn, ids) ==
    IF ids = <<>> THEN <<>>
    ELSE (IF Usable(wn, Head(ids)) THEN <<WayGet(wn, Head(ids))>> ELSE <<>>)
         \o Collect(wn, Tail(ids))

InitUsedNone(n) == [i \in 1..n |-> FALSE]

\* lines 96-97
InitUsed(n) == [i \in 1..n |-> i = 1]

\* lines 104-116 and 120-132: the first unused sequence with an endpoint equal to node
\* `at`, 0 when there is none
MatchesEnd(seq, at) == seq[1] = at \/ Last(seq) = at

FirstMatchIgnoringUsed(seqs, u, at) ==
    LET hits == {i \in 1..Len(seqs) : MatchesEnd(seqs[i], at)}
    IN IF hits = {} THEN 0 ELSE CHOOSE i \in hits : \A j \in hits : i <= j

FirstMatchLast(seqs, u, at) ==
    LET hits == {i \in 1..Len(seqs) : ~u[i] /\ MatchesEnd(seqs[i], at)}
    IN IF hits = {} THEN 0 ELSE CHOOSE i \in hits : \A j \in hits : j <= i

FirstMatch(seqs, u, at) ==
    LET hits == {i \in 1..Len(seqs) : ~u[i] /\ MatchesEnd(seqs[i], at)}
    IN IF hits = {} THEN 0 ELSE CHOOSE i \in hits : \A j \in hits : i <= j

TailPieceSwapped(seq, last) ==
    IF Last(seq) = last THEN Tail(seq) ELSE Reverse(Front(seq))

\* lines 107-116: what a matching sequence adds after the current tail
TailPiece(seq, last) ==
    IF seq[1] = last THEN Tail(seq) ELSE Reverse(Front(seq))

HeadPieceForward(seq, head) == Front(seq)

\* lines 123-132: what a matching sequence adds before the current head
HeadPiece(seq, head) ==
    IF Last(seq) = head THEN Front(seq) ELSE Reverse(Tail(seq))

ForceAppendNone(ch, seqs, u, i) == ch

RECURSIVE ForceAppendRaw(_, _, _, _)
ForceAppendRaw(ch, seqs, u, i) ==
    IF i > Len(seqs) THEN ch
    ELSE IF u[i] THEN ForceAppendRaw(ch, seqs, u, i + 1)
    ELSE ForceAppendRaw(ch \o seqs[i], seqs, u, i + 1)

\* lines 135-142: the unused sequences appended in input order
RECURSIVE ForceAppend(_, _, _, _)
ForceAppend(ch, seqs, u, i) ==
    IF i > Len(seqs) THEN ch
    ELSE IF u[i] THEN ForceAppend(ch, seqs, u, i + 1)
    ELSE IF Last(ch) = seqs[i][1]
         THEN ForceAppend(ch \o Tail(seqs[i]), seqs, u, i + 1)
    ELSE IF Last(ch) = Last(seqs[i])
         THEN ForceAppend(ch \o Reverse(Front(seqs[i])), seqs, u, i + 1)
    ELSE ForceAppend(ch \o seqs[i], seqs, u, i + 1)

DedupNone(s) == s

RECURSIVE DedupSeenFrom(_, _)
DedupSeenFrom(acc, rest) ==
    IF rest = <<>> THEN acc
    ELSE IF Head(rest) \in Range(acc) THEN DedupSeenFrom(acc, Tail(rest))
    ELSE DedupSeenFrom(Append(acc, Head(rest)), Tail(rest))

DedupSeen(s) == DedupSeenFrom(<<s[1]>>, Tail(s))

RECURSIVE DedupFrom(_, _)
DedupFrom(acc, rest) ==
    IF rest = <<>> THEN acc
    ELSE IF Head(rest) /= Last(acc) THEN DedupFrom(Append(acc, Head(rest)), Tail(rest))
    ELSE DedupFrom(acc, Tail(rest))

\* lines 145-148
Dedup(s) == DedupFrom(<<s[1]>>, Tail(s))

\* ---------------------------------------------------------------- actions
\* lines 86-97
ChainCollect ==
    /\ pc = "start"
    /\ LET seqs == Collect(way_nodes, centerline_way_ids)
       IN /\ sequences' = seqs
          /\ IF seqs = <<>>
             THEN /\ pc' = "error"
                  /\ UNCHANGED <<chained, used>>
             ELSE /\ pc' = "loop"
                  /\ chained' = seqs[1]
                  /\ used' = InitUsed(Len(seqs))
    /\ UNCHANGED <<way_nodes, centerline_way_ids, dedup>>
    /\ UNCHANGED othersOfChain

\* lines 100-116: a pass of the loop that extends the tail
ChainTailExtend ==
    /\ pc = "loop"
    /\ LET i == FirstMatch(sequences, used, Last(chained))
       IN /\ i /= 0
          /\ chained' = chained \o TailPiece(sequences[i], Last(chained))
          /\ used' = [used EXCEPT ![i] = TRUE]
    /\ UNCHANGED <<way_nodes, centerline_way_ids, sequences, dedup, pc>>
    /\ UNCHANGED othersOfChain

\* lines 118-132: a pass that found no tail extension and extends the head
ChainHeadExtend ==
    /\ pc = "loop"
    /\ FirstMatch(sequences, used, Last(chained)) = 0
    /\ LET i == FirstMatch(sequences, used, chained[1])
       IN /\ i /= 0
          /\ chained' = HeadPiece(sequences[i], chained[1]) \o chained
          /\ used' = [used EXCEPT ![i] = TRUE]
    /\ UNCHANGED <<way_nodes, centerline_way_ids, sequences, dedup, pc>>
    /\ UNCHANGED othersOfChain

\* line 100: a pass without progress ends the loop
ChainConverge ==
    /\ pc = "loop"
    /\ FirstMatch(sequences, used, Last(chained)) = 0
    /\ FirstMatch(sequences, used, chained[1]) = 0
    /\ pc' = "leftover"
    /\ UNCHANGED <<way_nodes, centerline_way_ids, sequences, chained, used, dedup>>
    /\ UNCHANGED othersOfChain

\* lines 135-142
ChainForceAppend ==
    /\ pc = "leftover"
    /\ chained' = ForceAppend(chained, sequences, used, 1)
    /\ pc' = "collapse"
    /\ UNCHANGED <<way_nodes, centerline_way_ids, sequences, used, dedup>>
    /\ UNCHANGED othersOfChain

\* lines 145-149
ChainDedup ==
    /\ pc = "collapse"
    /\ dedup' = Dedup(chained)
    /\ pc' = "done"
    /\ UNCHANGED <<way_nodes, centerline_way_ids, sequences, chained, used>>
    /\ UNCHANGED othersOfChain

\* ========================================================================
\* lanelet2_bounds_to_csv.py : OSMExtractor, main
\* ========================================================================
RoleSet == {"left", "right", "centerline"}

\* dict.get(k) with None read as the empty string (both are falsy)
TagGet(tags, k) == IF k \in DOMAIN tags THEN tags[k] ELSE ""

EmptyDict == [k \in {} |-> ""]

EmptyRes == [role \in RoleSet |-> <<>>]

\* an insertion-ordered dict keyed by id: d[key] = rec
DictPut(d, rec) ==
    IF \E i \in 1..Len(d) : d[i].id = rec.id
    THEN [i \in 1..Len(d) |-> IF d[i].id = rec.id THEN rec ELSE d[i]]
    ELSE Append(d, rec)

HasKey(d, id) == \E i \in 1..Len(d) : d[i].id = id

DictGet(d, id) == d[CHOOSE i \in 1..Len(d) : d[i].id = id]

\* Attribute values of the document are numbers: 0 stands for an attribute that is
\* missing (or empty), -1 for text that float() rejects.
Missing(v) == v = 0

NonNumeric(v) == v = -1

\* lines 54-55: float() accepts "inf"
Inf == 1000

Infinite(v) == v = Inf

\* lines 60-73: a local_x or local_y tag that is missing or not numeric gives None (0)
LocalOf(v) == IF Missing(v) \/ NonNumeric(v) THEN 0 ELSE v

\* lines 50-57: a node without id, lat or lon, or with a non-numeric lat or lon, is
\* skipped
Accepted(n) ==
    ~(Missing(n.id) \/ Missing(n.lat) \/ Missing(n.lon)
      \/ NonNumeric(n.lat) \/ NonNumeric(n.lon))

\* lines 48-80
RECURSIVE ParseNodes(_, _)
ParseNodes(ns, elems) ==
    IF elems = <<>> THEN ns
    ELSE LET n == Head(elems)
         IN IF ~Accepted(n)
            THEN ParseNodes(ns, Tail(elems))
            ELSE ParseNodes([k \in DOMAIN ns \cup {n.id} |->
                                IF k = n.id
                                THEN <<n.lat, n.lon, LocalOf(n.local_x), LocalOf(n.local_y)>>
                                ELSE ns[k]],
                            Tail(elems))

\* lines 49-80: the insertion order of self.nodes; assigning to a key the dict has
\* keeps the key at its place
RECURSIVE ParseNodeKeys(_, _)
ParseNodeKeys(keys, elems) ==
    IF elems = <<>> THEN keys
    ELSE LET n == Head(elems)
         IN IF ~Accepted(n) \/ n.id \in Range(keys)
            THEN ParseNodeKeys(keys, Tail(elems))
            ELSE ParseNodeKeys(Append(keys, n.id), Tail(elems))

None == <<>>

\* lines 84-85 and 135-136: next(iter(self.nodes.values()))
AnyNode(ns, keys) == <<ns[keys[1]][1], ns[keys[1]][2]>>

OriginReset(o, ns, keys) == IF keys /= <<>> THEN AnyNode(ns, keys) ELSE o

\* lines 83-85
OriginAfterParse(o, ns, keys) == IF o = None /\ keys /= <<>> THEN AnyNode(ns, keys) ELSE o

\* lines 131-150: the exception raised, the origin afterwards and the point returned.
\* The projection is not computed: its result is the pair it is a function of, the
\* position and the origin it is taken against.
\* With pyproj and a finite origin longitude the transformer is used, and it gives
\* inf for a position it cannot project; otherwise (no pyproj, or lines 124-129 failed
\* on the origin) the equirectangular formula is, and math.cos raises ValueError on
\* an infinite mean latitude.
LatLonToXY(o, ns, keys, lat, lon) ==
    IF o = None /\ keys = <<>>
    THEN [raised |-> "RuntimeError", origin |-> o, xy |-> <<>>]
    ELSE LET o1 == IF o = None THEN AnyNode(ns, keys) ELSE o
             transformer == has_pyproj /\ ~Infinite(o1[2])
         IN IF ~transformer /\ (Infinite(lat) \/ Infinite(o1[1]))
            THEN [raised |-> "ValueError", origin |-> o1, xy |-> <<>>]
            ELSE [raised |-> "", origin |-> o1, xy |-> <<lat, lon, o1[1], o1[2]>>]

\* lines 93-96: the nd children that carry a ref
Truthy(refs) == SelectSeq(refs, LAMBDA r : ~Missing(r))

\* lines 87-101
RECURSIVE ParseWays(_, _)
ParseWays(ws, elems) ==
    IF elems = <<>> THEN ws
    ELSE LET w == Head(elems)
         IN IF Missing(w.id) THEN ParseWays(ws, Tail(elems))
            ELSE ParseWays(DictPut(ws, [id |-> w.id, node_ids |-> Truthy(w.nd),
                                        tags |-> w.tags]),
                           Tail(elems))

\* lines 109-112: the members that carry a type and a ref
KeptMembers(ms) == SelectSeq(ms, LAMBDA m : m.type /= "" /\ ~Missing(m.ref))

\* lines 103-117
RECURSIVE ParseRelations(_, _)
ParseRelations(rs, elems) ==
    IF elems = <<>> THEN rs
    ELSE LET r == Head(elems)
         IN IF Missing(r.id) THEN ParseRelations(rs, Tail(elems))
            ELSE ParseRelations(DictPut(rs, [id |-> r.id, members |-> KeptMembers(r.member),
                                             tags |-> r.tags]),
                                Tail(elems))

RECURSIVE KnownCoords(_, _)
KnownCoords(ns, ids) ==
    IF ids = <<>> THEN <<>>
    ELSE (IF Head(ids) \in DOMAIN ns THEN <<ns[Head(ids)]>> ELSE <<>>)
         \o KnownCoords(ns, Tail(ids))

\* lines 153-165
CoordsOfWay(ws, ns, wid) ==
    IF ~HasKey(ws, wid) THEN <<>> ELSE KnownCoords(ns, DictGet(ws, wid).node_ids)

\* lines 185-186 and 212-213: enumerate(coords) under one id
Entries(id, coords) == [i \in 1..Len(coords) |-> <<id, i - 1, coords[i]>>]

IsLaneletAny(rel) == TRUE

\* line 170
IsLanelet(rel) == TagGet(rel.tags, "type") = "lanelet"

RECURSIVE RoleToWayFrom(_, _, _)
RoleToWayFrom(d, ms, keepFirst) ==
    IF ms = <<>> THEN d
    ELSE LET m == Head(ms)
         IN RoleToWayFrom(
                IF m.type = "way" /\ m.role \in RoleSet
                   /\ ~(keepFirst /\ m.role \in DOMAIN d)
                THEN [k \in DOMAIN d \cup {m.role} |-> IF k = m.role THEN m.ref ELSE d[k]]
                ELSE d,
                Tail(ms), keepFirst)

RoleToWayLast(ms) == RoleToWayFrom(EmptyDict, ms, FALSE)

\* lines 176-179: role2way.setdefault keeps the first ref of a role
RoleToWay(ms) == RoleToWayFrom(EmptyDict, ms, TRUE)

\* lines 173-187
RECURSIVE ExtractByRelationsFrom(_, _, _, _)
ExtractByRelationsFrom(res, rs, ws, ns) ==
    IF rs = <<>> THEN res
    ELSE LET rel == Head(rs)
             role2way == RoleToWay(rel.members)
         IN IF ~IsLanelet(rel) THEN ExtractByRelationsFrom(res, Tail(rs), ws, ns)
            ELSE ExtractByRelationsFrom(
                     [role \in RoleSet |->
                         IF role \in DOMAIN role2way
                         THEN res[role] \o Entries(rel.id, CoordsOfWay(ws, ns, role2way[role]))
                         ELSE res[role]],
                     Tail(rs), ws, ns)

ExtractByRelations(rs, ws, ns) == ExtractByRelationsFrom(EmptyRes, rs, ws, ns)

\* line 206: subtype, else lane_subtype, else ''
SubtypeOf(tags) ==
    IF TagGet(tags, "subtype") /= "" THEN TagGet(tags, "subtype")
    ELSE TagGet(tags, "lane_subtype")

RoleOfSubtypeNoCenter(st) ==
    CASE st = "left_lane_bound" -> "left"
      [] st = "right_lane_bound" -> "right"
      [] OTHER -> ""

\* lines 198-207: map_subtype_to_role.get(st), None read as ''
RoleOfSubtype(st) ==
    CASE st = "left_lane_bound" -> "left"
      [] st = "right_lane_bound" -> "right"
      [] st = "center_lane_line" -> "centerline"
      [] OTHER -> ""

\* lines 190-214
RECURSIVE ExtractByWaySubtypeFrom(_, _, _, _)
ExtractByWaySubtypeFrom(res, todo, ws, ns) ==
    IF todo = <<>> THEN res
    ELSE LET way == Head(todo)
             r == RoleOfSubtype(SubtypeOf(way.tags))
         IN IF r = "" THEN ExtractByWaySubtypeFrom(res, Tail(todo), ws, ns)
            ELSE ExtractByWaySubtypeFrom(
                     [res EXCEPT ![r] = @ \o Entries(way.id, CoordsOfWay(ws, ns, way.id))],
                     Tail(todo), ws, ns)

ExtractByWaySubtype(ws, ns) == ExtractByWaySubtypeFrom(EmptyRes, ws, ws, ns)

\* line 221
Total(res) == Len(res["left"]) + Len(res["right"]) + Len(res["centerline"])

ExtractLaneBoundsPerRole(rs, ws, ns) ==
    LET rel == ExtractByRelations(rs, ws, ns)
        way == ExtractByWaySubtype(ws, ns)
    IN IF Total(rel) > 0
       THEN [rel_res |-> rel, via |-> "relations",
             res |-> [role \in RoleSet |-> IF rel[role] = <<>> THEN way[role] ELSE rel[role]]]
       ELSE [rel_res |-> rel, via |-> "way-subtype", res |-> way]

\* lines 216-228
ExtractLaneBounds(rs, ws, ns) ==
    LET rel == ExtractByRelations(rs, ws, ns)
    IN IF Total(rel) > 0
       THEN [rel_res |-> rel, via |-> "relations", res |-> rel]
       ELSE [rel_res |-> rel, via |-> "way-subtype", res |-> ExtractByWaySubtype(ws, ns)]

\* lines 266-274: the rows of one role (id, role, index, latitude, longitude, the
\* projected point, local_x, local_y) appended to acc, up to a row whose conversion
\* raises
RECURSIVE Rows(_, _, _, _, _, _)
Rows(acc, role, entries, o, ns, keys) ==
    IF entries = <<>> THEN [rows |-> acc, origin |-> o, raised |-> ""]
    ELSE LET en == Head(entries)
             r == LatLonToXY(o, ns, keys, en[3][1], en[3][2])
         IN IF r.raised /= "" THEN [rows |-> acc, origin |-> o, raised |-> r.raised]
            ELSE Rows(Append(acc, <<en[1], role, en[2], en[3][1], en[3][2], r.xy,
                                    en[3][3], en[3][4]>>),
                      role, Tail(entries), r.origin, ns, keys)

\* the file of the name f opened for writing and given the rows
FilePut(fs, f, rows) == [g \in DOMAIN fs \cup {f} |-> IF g = f THEN rows ELSE fs[g]]

\* line 261
RoleFile(role) ==
    CASE role = "left" -> "left.csv"
      [] role = "right" -> "right.csv"
      [] role = "centerline" -> "centerline.csv"

\* lines 259-276: the files of the roles written in turn; a raise leaves the file
\* being written with the rows it has and the later files as they were
RECURSIVE WriteRoleFiles(_, _, _, _, _, _)
WriteRoleFiles(fs, roles, bnds, o, ns, keys) ==
    IF roles = <<>> THEN [files |-> fs, origin |-> o, raised |-> ""]
    ELSE LET w == Rows(<<>>, Head(roles), bnds[Head(roles)], o, ns, keys)
             fs1 == FilePut(fs, RoleFile(Head(roles)), w.rows)
         IN IF w.raised /= "" THEN [files |-> fs1, origin |-> w.origin, raised |-> w.raised]
            ELSE WriteRoleFiles(fs1, Tail(roles), bnds, w.origin, ns, keys)

\* lines 259, 288
RoleOrder == <<"left", "right", "centerline">>

\* ---------------------------------------------------------------- actions
\* lines 328-329 and 36-45: ET.parse raises on a document that is not well-formed
MainConstruct ==
    /\ xpc = "start"
    /\ xpc' = IF root.wellformed THEN "ready" ELSE "failed"
    /\ raised' = IF root.wellformed THEN "" ELSE "ParseError"
    /\ UNCHANGED <<root, nodes, ways, relations, rel_res, bounds, info, files,
                   node_keys, origin_latlon,
                   has_pyproj>>
    /\ UNCHANGED othersOfExtract

\* line 332, line 255
ParseAll ==
    /\ xpc = "ready"
    /\ nodes' = ParseNodes(nodes, root.node)
    /\ node_keys' = ParseNodeKeys(node_keys, root.node)
    /\ origin_latlon' = OriginAfterParse(origin_latlon, ParseNodes(nodes, root.node),
                                         ParseNodeKeys(node_keys, root.node))
    /\ ways' = ParseWays(ways, root.way)
    /\ relations' = ParseRelations(relations, root.relation)
    /\ xpc' = "parsed"
    /\ UNCHANGED <<root, rel_res, bounds, info, files, raised,
                   has_pyproj>>
    /\ UNCHANGED othersOfExtract

\* line 256
ExtractLaneBoundsStep ==
    /\ xpc = "parsed"
    /\ LET got == ExtractLaneBounds(relations, ways, nodes)
       IN /\ rel_res' = got.rel_res
          /\ bounds' = got.res
          /\ info' = got.via
    /\ xpc' = "extracted"
    /\ UNCHANGED <<root, nodes, ways, relations, files, node_keys, origin_latlon, raised,
                   has_pyproj>>
    /\ UNCHANGED othersOfExtract

\* lines 257-277, and the end of the command
WriteRoles ==
    /\ xpc = "extracted"
    /\ LET w == WriteRoleFiles(files, RoleOrder, bounds, origin_latlon, nodes, node_keys)
       IN /\ files' = w.files
          /\ origin_latlon' = w.origin
          /\ raised' = w.raised
          /\ xpc' = IF w.raised = "" THEN "exit" ELSE "failed"
    /\ UNCHANGED <<root, nodes, ways, relations, rel_res, bounds, info, node_keys,
                   has_pyproj>>
    /\ UNCHANGED othersOfExtract

\* ------------------------------------------ calls on a constructed extractor
\* what the three parse calls at lines 234, 255 and 280 leave in the object
ParsedAll ==
    LET ns == ParseNodes(nodes, root.node)
        keys == ParseNodeKeys(node_keys, root.node)
    IN [nodes |-> ns, keys |-> keys,
        origin |-> OriginAfterParse(origin_latlon, ns, keys),
        ways |-> ParseWays(ways, root.way),
        relations |-> ParseRelations(relations, root.relation)]

\* lines 48-85
CallParseNodes ==
    /\ xpc = "ready"
    /\ nodes' = ParsedAll.nodes
    /\ node_keys' = ParsedAll.keys
    /\ origin_latlon' = ParsedAll.origin
    /\ raised' = ""
    /\ UNCHANGED <<root, ways, relations, rel_res, bounds, info, files, xpc,
                   has_pyproj>>
    /\ UNCHANGED othersOfExtract

\* lines 87-117
CallParseWaysAndRelations ==
    /\ xpc = "ready"
    /\ ways' = ParsedAll.ways
    /\ relations' = ParsedAll.relations
    /\ raised' = ""
    /\ UNCHANGED <<root, nodes, node_keys, origin_latlon, rel_res, bounds, info, files, xpc,
                   has_pyproj>>
    /\ UNCHANGED othersOfExtract

\* the positions handed to latlon_to_xy
ProbePoints == {<<10, 11>>}

\* lines 131-150
CallLatLonToXY ==
    /\ xpc = "ready"
    /\ \E p \in ProbePoints :
          LET r == LatLonToXY(origin_latlon, nodes, node_keys, p[1], p[2])
          IN /\ origin_latlon' = r.origin
             /\ raised' = r.raised
    /\ UNCHANGED <<root, nodes, node_keys, ways, relations, rel_res, bounds, info, files, xpc,
                   has_pyproj>>
    /\ UNCHANGED othersOfExtract

\* line 232
ValidRole(role) == role \in RoleSet

\* line 236: bounds.get(role, [])
BoundsGet(bnds, role) == IF role \in DOMAIN bnds THEN bnds[role] ELSE <<>>

\* the output_file given to export_role_to_csv, and the one given to
\* export_all_to_single_csv
OutputFile == "out.csv"

SingleFile == "bounds_all.csv"

\* lines 231-252, for a valid or an invalid role
ExportRoleToCsv ==
    /\ xpc = "ready"
    /\ \E role \in RoleSet \cup {"start"} :
          IF ~ValidRole(role)
          THEN /\ raised' = "ValueError"
               /\ UNCHANGED <<nodes, node_keys, origin_latlon, ways, relations, files>>
          ELSE LET pa == ParsedAll
                   got == ExtractLaneBounds(pa.relations, pa.ways, pa.nodes)
                   w == Rows(<<>>, role, BoundsGet(got.res, role), pa.origin, pa.nodes, pa.keys)
               IN /\ nodes' = pa.nodes
                  /\ node_keys' = pa.keys
                  /\ ways' = pa.ways
                  /\ relations' = pa.relations
                  /\ files' = FilePut(files, OutputFile, w.rows)
                  /\ origin_latlon' = w.origin
                  /\ raised' = w.raised
    /\ UNCHANGED <<root, rel_res, bounds, info, xpc, has_pyproj>>
    /\ UNCHANGED othersOfExtract

\* lines 254-277
ExportAllRolesToDir ==
    /\ xpc = "ready"
    /\ LET pa == ParsedAll
           got == ExtractLaneBounds(pa.relations, pa.ways, pa.nodes)
           w == WriteRoleFiles(files, RoleOrder, got.res, pa.origin, pa.nodes, pa.keys)
       IN /\ nodes' = pa.nodes
          /\ node_keys' = pa.keys
          /\ ways' = pa.ways
          /\ relations' = pa.relations
          /\ files' = w.files
          /\ origin_latlon' = w.origin
          /\ raised' = w.raised
    /\ UNCHANGED <<root, rel_res, bounds, info, xpc, has_pyproj>>
    /\ UNCHANGED othersOfExtract

\* lines 288-298: the rows of the roles in turn, in one file
RECURSIVE SingleRows(_, _, _, _, _, _)
SingleRows(acc, roles, bnds, o, ns, keys) ==
    IF roles = <<>> THEN [rows |-> acc, origin |-> o, raised |-> ""]
    ELSE LET w == Rows(acc, Head(roles), BoundsGet(bnds, Head(roles)), o, ns, keys)
         IN IF w.raised /= "" THEN w
            ELSE SingleRows(w.rows, Tail(roles), bnds, w.origin, ns, keys)

\* lines 279-300
ExportAllToSingleCsv ==
    /\ xpc = "ready"
    /\ LET pa == ParsedAll
           got == ExtractLaneBounds(pa.relations, pa.ways, pa.nodes)
           w == SingleRows(<<>>, RoleOrder, got.res, pa.origin, pa.nodes, pa.keys)
       IN /\ nodes' = pa.nodes
          /\ node_keys' = pa.keys
          /\ ways' = pa.ways
          /\ relations' = pa.relations
          /\ files' = FilePut(files, SingleFile, w.rows)
          /\ origin_latlon' = w.origin
          /\ raised' = w.raised
    /\ UNCHANGED <<root, rel_res, bounds, info, xpc, has_pyproj>>
    /\ UNCHANGED othersOfExtract

\* ========================================================================
\* osm_centerline_to_csv.py : load_map, write_csv and the command
\* ========================================================================
\* A tag of a node element is a number: 0 for a tag the node does not have, -1 for
\* a value float() rejects.
Present(v) == ~Missing(v)

\* lines 48-57: the coordinates of a node element, <<>> when it gets none
CoordsOfNode(n) ==
    IF Present(n.local_x) /\ Present(n.local_y)
    THEN (IF NonNumeric(n.local_x) \/ NonNumeric(n.local_y) THEN <<>>
          ELSE <<n.local_x, n.local_y>>)
    ELSE IF Present(n.x) /\ Present(n.y)
    THEN (IF NonNumeric(n.x) \/ NonNumeric(n.y) THEN <<>> ELSE <<n.x, n.y>>)
    ELSE <<>>

\* lines 46 and 62: int(e.get("id")) raises TypeError on None, ValueError on text
IntError(v) == IF Missing(v) THEN "TypeError" ELSE IF NonNumeric(v) THEN "ValueError" ELSE ""

\* lines 44-57
RECURSIVE LoadNodes(_, _)
LoadNodes(nxy, elems) ==
    IF elems = <<>> THEN [raised |-> "", node_xy |-> nxy]
    ELSE LET n == Head(elems)
         IN IF IntError(n.id) /= "" THEN [raised |-> IntError(n.id), node_xy |-> nxy]
            ELSE IF CoordsOfNode(n) = <<>> THEN LoadNodes(nxy, Tail(elems))
            ELSE LoadNodes([k \in DOMAIN nxy \cup {n.id} |->
                               IF k = n.id THEN CoordsOfNode(n) ELSE nxy[k]],
                           Tail(elems))

\* lines 60-63
RECURSIVE LoadWays(_, _)
LoadWays(wn, elems) ==
    IF elems = <<>> THEN [raised |-> "", way_nodes |-> wn]
    ELSE LET w == Head(elems)
         IN IF IntError(w.id) /= "" THEN [raised |-> IntError(w.id), way_nodes |-> wn]
            ELSE LoadWays([k \in DOMAIN wn \cup {w.id} |->
                              IF k = w.id THEN Truthy(w.nd) ELSE wn[k]],
                          Tail(elems))

\* lines 70-72: the refs of the centerline way members of one relation
CenterlineRefs(ms) ==
    LET kept == SelectSeq(ms, LAMBDA m : m.type = "way" /\ m.role = "centerline"
                                          /\ ~Missing(m.ref))
    IN [i \in 1..Len(kept) |-> kept[i].ref]

\* lines 66-72
RECURSIVE LoadCenterlineIds(_)
LoadCenterlineIds(rels) ==
    IF rels = <<>> THEN <<>>
    ELSE (IF TagGet(Head(rels).tags, "type") = "lanelet"
          THEN CenterlineRefs(Head(rels).member) ELSE <<>>)
         \o LoadCenterlineIds(Tail(rels))

\* lines 39-77
LoadMap ==
    /\ pc = "load"
    /\ LET ln == LoadNodes(<<>>, osm.node)
           lw == LoadWays(<<>>, osm.way)
           ids == LoadCenterlineIds(osm.relation)
           err == IF ~osm.wellformed THEN "ParseError"
                  ELSE IF ln.raised /= "" THEN ln.raised
                  ELSE IF lw.raised /= "" THEN lw.raised
                  ELSE IF ids = <<>> THEN "RuntimeError"
                  ELSE ""
       IN IF err /= ""
          THEN /\ pc' = "load_failed"
               /\ error' = err
               /\ UNCHANGED <<node_xy, way_nodes, centerline_way_ids>>
          ELSE /\ pc' = "start"
               /\ node_xy' = ln.node_xy
               /\ way_nodes' = lw.way_nodes
               /\ centerline_way_ids' = ids
               /\ UNCHANGED error
    /\ UNCHANGED <<sequences, chained, used, dedup, osm, pts, out_csv>>
    /\ UNCHANGED othersOfCenter

PtsOfAll(nxy, ids) ==
    [i \in 1..Len(ids) |-> <<ids[i], IF ids[i] \in DOMAIN nxy THEN nxy[ids[i]] ELSE <<0, 0>>>>]

\* line 161
PtsOf(nxy, ids) ==
    LET kept == SelectSeq(ids, LAMBDA nid : nid \in DOMAIN nxy)
    IN [i \in 1..Len(kept) |-> <<kept[i], nxy[kept[i]]>>]

\* line 162
TooFew(p) == Len(p) < 2

\* lines 28-31: the vector whose angle is the yaw
YawFrom(p0, p1) == <<p1[1] - p0[1], p1[2] - p0[2]>>

\* lines 170-176: the row of the i-th point: x, y and the vector of its yaw (the
\* quaternion is a function of it; z and speed are the same in every row)
RowOf(p, i) ==
    <<p[i][2][1], p[i][2][2],
      IF i = 1 THEN YawFrom(p[1][2], p[2][2]) ELSE YawFrom(p[i - 1][2], p[i][2])>>

\* lines 161-163, called on the stitched ids at line 191
WriteCsvFilter ==
    /\ pc = "done"
    /\ pts' = PtsOf(node_xy, dedup)
    /\ IF TooFew(PtsOf(node_xy, dedup))
       THEN pc' = "write_failed" /\ error' = "RuntimeError"
       ELSE pc' = "open" /\ UNCHANGED error
    /\ UNCHANGED <<way_nodes, centerline_way_ids, sequences, chained, used, dedup>>
    /\ UNCHANGED <<osm, node_xy, out_csv>>
    /\ UNCHANGED othersOfCenter

\* lines 167-169: opening truncates the file, then the header is written
WriteCsvOpen ==
    /\ pc = "open"
    /\ out_csv' = [exists |-> TRUE, rows |-> <<>>]
    /\ pc' = "rows"
    /\ UNCHANGED <<way_nodes, centerline_way_ids, sequences, chained, used, dedup>>
    /\ UNCHANGED <<osm, node_xy, pts, error>>
    /\ UNCHANGED othersOfCenter

\* lines 170-176: one row; pts[i + 1] raises IndexError when there is one point only
WriteCsvRow ==
    /\ pc = "rows"
    /\ Len(out_csv.rows) < Len(pts)
    /\ LET i == Len(out_csv.rows) + 1
       IN IF i = 1 /\ Len(pts) < 2
          THEN /\ pc' = "write_failed"
               /\ error' = "IndexError"
               /\ UNCHANGED out_csv
          ELSE /\ out_csv' = [out_csv EXCEPT !.rows = Append(@, RowOf(pts, i))]
               /\ UNCHANGED <<pc, error>>
    /\ UNCHANGED <<way_nodes, centerline_way_ids, sequences, chained, used, dedup>>
    /\ UNCHANGED <<osm, node_xy, pts>>
    /\ UNCHANGED othersOfCenter

\* the end of the with block, and line 193
WriteCsvClose ==
    /\ pc = "rows"
    /\ Len(out_csv.rows) = Len(pts)
    /\ pc' = "exit"
    /\ UNCHANGED <<way_nodes, centerline_way_ids, sequences, chained, used, dedup>>
    /\ UNCHANGED centerVars
    /\ UNCHANGED othersOfCenter

\* ========================================================================
\* trajectory_raceline.py : base_speed and the adjusted_speed loop
\* ========================================================================
\* Curvatures are integers in units of 0.001 1/m and speeds integers in units of
\* 0.0001 m/s.  List indices are 1-based: index i here is index i - 1 of the code.
MaxPts == 11
MaxCurv == 110

\* line 35
lookahead == 5

\* line 19: 0/0 where dx = dy = 0
NaN == 1000000

IsNaN(c) == c = NaN

Abs(c) == IF c < 0 THEN -c ELSE c

Min(a, b) == IF a <= b THEN a ELSE b

base_speed_signed(c) ==
    IF IsNaN(c) THEN 99000
    ELSE IF c < 20 THEN 105000
    ELSE IF c < 50 THEN 104500
    ELSE IF c < 100 THEN 102000
    ELSE 99000

\* lines 22-31; every comparison with NaN is false
base_speed(c) ==
    IF IsNaN(c) THEN 99000
    ELSE IF Abs(c) < 20 THEN 105000
    ELSE IF Abs(c) < 50 THEN 104500
    ELSE IF Abs(c) < 100 THEN 102000
    ELSE 99000

ExceedsOrEqual(a, b) == ~IsNaN(a) /\ ~IsNaN(b) /\ a - b >= 0

\* lines 41 and 44: (a - b) > 0.001, false when either is NaN
Exceeds(a, b) == ~IsNaN(a) /\ ~IsNaN(b) /\ a - b > 1

\* line 41
EntryCond(c, i) == i + lookahead <= Len(c) /\ Exceeds(c[i + lookahead], c[i])

\* line 44
ExitCond(c, i) == i - lookahead >= 1 /\ Exceeds(c[i - lookahead], c[i])

ExitSpeedFivePercent(b) == Min((b * 105) \div 100, 105000)

ExitSpeedUncapped(b) == (b * 110) \div 100

\* line 45: min(base * 1.10, 10.50)
ExitSpeed(b) == Min((b * 110) \div 100, 105000)

\* line 42: base * 0.95
EntrySpeed(b) == (b * 95) \div 100

AdjustedExitFirst(c, i, b) ==
    IF ExitCond(c, i) THEN ExitSpeed(b)
    ELSE IF EntryCond(c, i) THEN EntrySpeed(b)
    ELSE b

\* lines 41-47: the value appended for index i
Adjusted(c, i, b) ==
    IF EntryCond(c, i) THEN EntrySpeed(b)
    ELSE IF ExitCond(c, i) THEN ExitSpeed(b)
    ELSE b

LoopRangeShort(c) == IF Len(c) > lookahead THEN Len(c) - lookahead ELSE 0

\* line 37: range(len(curvature))
LoopRange(c) == Len(c)

\* the curvature values of the inputs
CurvValues == {-100, 0, 1, 2, 20, 50, 100, NaN}

\* paths whose curvature varies at the indices 1, 1 + lookahead, 1 + 2 lookahead
\* and is the same everywhere else
KeyedCurvature(n, v, fill) ==
    [i \in 1..n |-> IF (i - 1) % lookahead = 0
                    THEN v[(((i - 1) \div lookahead) % 3) + 1]
                    ELSE fill]

\* a path that opens up through every band: each index of the second block has a
\* smaller curvature than the index lookahead before it
Descent(n) ==
    [i \in 1..n |->
        IF i <= lookahead THEN <<2, 50, 100, 0, 102>>[i]
        ELSE IF i <= 2 * lookahead THEN <<0, 20, 50, -100, 100>>[i - lookahead]
        ELSE -100]

\* the curvature sequences line 19 may give for a path of n points
Curvatures(n) ==
    {KeyedCurvature(n, v, fill) : v \in [1..3 -> CurvValues], fill \in CurvValues}
        \cup {Descent(n)}
        \cup (IF n = 2 THEN {<<c, 0 - c>> : c \in (0 - MaxCurv)..MaxCurv} ELSE {})

\* ---------------------------------------------------------------- actions
\* lines 10-19: np.gradient raises on fewer than 2 points; the curvature of the path
\* is any sequence of the path's length
ProfileCurvature ==
    /\ ppc = "start"
    /\ IF npoints < 2
       THEN /\ ppc' = "failed"
            /\ UNCHANGED curvature
       ELSE /\ ppc' = "loop"
            /\ curvature' \in Curvatures(npoints)
    /\ UNCHANGED <<npoints, base, adjusted_speed, speed>>
    /\ UNCHANGED othersOfProfile

\* lines 37-47: one iteration
ProfileStep ==
    /\ ppc = "loop"
    /\ Len(adjusted_speed) < LoopRange(curvature)
    /\ LET i == Len(adjusted_speed) + 1
           b == base_speed(curvature[i])
       IN /\ base' = b
          /\ adjusted_speed' = Append(adjusted_speed, Adjusted(curvature, i, b))
    /\ UNCHANGED <<npoints, curvature, speed, ppc>>
    /\ UNCHANGED othersOfProfile

\* lines 49-52: the column assignment raises when the lengths differ
ProfileSave ==
    /\ ppc = "loop"
    /\ Len(adjusted_speed) >= LoopRange(curvature)
    /\ IF Len(adjusted_speed) = npoints
       THEN /\ speed' = adjusted_speed
            /\ ppc' = "done"
       ELSE /\ ppc' = "failed"
            /\ UNCHANGED speed
    /\ UNCHANGED <<npoints, curvature, base, adjusted_speed>>
    /\ UNCHANGED othersOfProfile

\* ========================================================================
\* motion_analytics.py : sync_topic
\* ========================================================================
MaxData == 3
MaxTime == 3

\* lines 76-77: the while loop, from index i (1-based) for the timestamp t
RECURSIVE Advance(_, _, _)
Advance(d2, i, t) ==
    IF i + 1 <= Len(d2) /\ d2[i + 1][1] <= t THEN Advance(d2, i + 1, t) ELSE i

\* lines 71-74
SyncStart ==
    /\ spc = "start"
    /\ IF data1 = <<>> \/ data2 = <<>>
       THEN /\ result' = <<>>
            /\ spc' = "done"
            /\ UNCHANGED idx2
       ELSE /\ idx2' = 1
            /\ spc' = "loop"
            /\ UNCHANGED result
    /\ UNCHANGED <<data1, data2, sync_data>>
    /\ UNCHANGED othersOfSync

\* lines 75-78: one iteration of the for loop
SyncStep ==
    /\ spc = "loop"
    /\ Len(sync_data) < Len(data1)
    /\ LET idx1 == Len(sync_data) + 1
           j == Advance(data2, idx2, data1[idx1][1])
       IN /\ idx2' = j
          /\ sync_data' = Append(sync_data, data2[j])
    /\ UNCHANGED <<data1, data2, result, spc>>
    /\ UNCHANGED othersOfSync

\* line 79
SyncReturn ==
    /\ spc = "loop"
    /\ Len(sync_data) = Len(data1)
    /\ result' = sync_data
    /\ spc' = "done"
    /\ UNCHANGED <<data1, data2, idx2, sync_data>>
    /\ UNCHANGED othersOfSync

IdleSync ==
    /\ data1 = <<>>
    /\ data2 = <<>>
    /\ idx2 = 0
    /\ sync_data = <<>>
    /\ result = <<>>
    /\ spc = "idle"

\* lists of entries <<timestamp, k>>, k the position in the list, sorted by
\* timestamp as the messages of a bag are read
Stamped(ts) == [k \in 1..Len(ts) |-> <<ts[k], k>>]

SortedStamps ==
    {ts \in SeqsUpTo(1..MaxTime, MaxData) : \A k \in 1..(Len(ts) - 1) : ts[k] <= ts[k + 1]}

\* ========================================================================
\* edit_trajectory.py : TrajectoryEditor
\* ========================================================================
MaxInitPoints == 2
MaxPoints == 3
MaxHistory == 2

\* "no index": self.dragging_idx and self.selected_idx are None; indices are 1-based
NoIdx == 0

\* event.xdata, event.ydata are None: the cursor is outside the axes
Outside == <<>>

\* the positions of points and of the cursor, in data units
Grid == {<<0, 0>>, <<2, 0>>}

\* speeds are kept in units of 1/8 km/h; sp_mps is the same speed divided by 3.6
SpeedUnit == 8

\* lines 39-43
PICK_RADIUS_PX == 8
SPEED_MIN_KPH == 0 * SpeedUnit
SPEED_MAX_KPH == 200 * SpeedUnit
SPEED_STEP_KPH == 1 * SpeedUnit
SPEED_BIGSTEP_KPH == 5 * SpeedUnit

\* ax.transData: display pixels per data unit
PxPerUnit == 8

\* the editor object
Self ==
    [xy |-> xy, sp_mps |-> sp_mps, undo_stack |-> undo_stack, redo_stack |-> redo_stack,
     pressed |-> pressed, dragging_idx |-> dragging_idx, selected_idx |-> selected_idx,
     exc |-> "", save_csv |-> save_csv, fig_open |-> fig_open]

\* line 176: np.clip
ClampSpeedKph(v) ==
    IF v < SPEED_MIN_KPH THEN SPEED_MIN_KPH
    ELSE IF v > SPEED_MAX_KPH THEN SPEED_MAX_KPH
    ELSE v

PushUndoKeepRedo(s) == [s EXCEPT !.undo_stack = Append(@, <<s.xy, s.sp_mps>>)]

\* lines 229-231
PushUndo(s) ==
    [s EXCEPT !.undo_stack = Append(@, <<s.xy, s.sp_mps>>), !.redo_stack = <<>>]

\* lines 233-238
Undo(s) ==
    IF s.undo_stack = <<>> THEN s
    ELSE [s EXCEPT !.redo_stack = Append(@, <<s.xy, s.sp_mps>>),
                   !.xy = Last(s.undo_stack)[1],
                   !.sp_mps = Last(s.undo_stack)[2],
                   !.undo_stack = Front(@)]

\* lines 240-245
Redo(s) ==
    IF s.redo_stack = <<>> THEN s
    ELSE [s EXCEPT !.undo_stack = Append(@, <<s.xy, s.sp_mps>>),
                   !.xy = Last(s.redo_stack)[1],
                   !.sp_mps = Last(s.redo_stack)[2],
                   !.redo_stack = Front(@)]

\* line 254: squared distance
D2(p, c) == (p[1] - c[1]) * (p[1] - c[1]) + (p[2] - c[2]) * (p[2] - c[2])

\* line 255: np.argmin, the first index of the least distance, among the indices in S
ArgMin(points, c, S) ==
    CHOOSE i \in S :
        \A j \in S : D2(points[i], c) < D2(points[j], c) \/ (D2(points[i], c) = D2(points[j], c) /\ i <= j)

\* lines 248-258
NearestIndex(points, c) ==
    IF points = <<>> THEN NoIdx
    ELSE LET idx == ArgMin(points, c, 1..Len(points))
         IN IF D2(points[idx], c) * PxPerUnit * PxPerUnit <= PICK_RADIUS_PX * PICK_RADIUS_PX
            THEN idx
            ELSE NoIdx

\* lines 260-266
SelectNearest(s, c) == [s EXCEPT !.selected_idx = NearestIndex(s.xy, c)]

\* lines 362-369: the mean speed of the two nearest points
NewSpeed(points, sp, c) ==
    IF Len(points) >= 2
    THEN LET a == ArgMin(points, c, 1..Len(points))
             b == ArgMin(points, c, (1..Len(points)) \ {a})
         IN (sp[a] + sp[b]) \div 2
    ELSE IF Len(points) = 1 THEN sp[1]
    ELSE 0

\* lines 360-374
AddPoint(s, c) ==
    [s EXCEPT !.xy = Append(@, c),
              !.sp_mps = Append(@, NewSpeed(s.xy, s.sp_mps, c)),
              !.selected_idx = Len(s.xy) + 1]

\* lines 376-381: the read at line 377 raises for an index that is not in the array
BumpSpeed(s, idx, delta_kph) ==
    IF idx > Len(s.sp_mps) THEN [s EXCEPT !.exc = "IndexError"]
    ELSE [s EXCEPT !.sp_mps[idx] = ClampSpeedKph(@ + delta_kph)]

\* np.delete
RemoveAt(seq, idx) == SubSeq(seq, 1, idx - 1) \o SubSeq(seq, idx + 1, Len(seq))

\* lines 347-358
DeleteSelectedNearest(s, c) ==
    IF c = Outside THEN s
    ELSE LET idx == NearestIndex(s.xy, c)
         IN IF idx = NoIdx \/ Len(s.xy) <= 1 THEN s
            ELSE [PushUndo(s) EXCEPT !.xy = RemoveAt(@, idx),
                                     !.sp_mps = RemoveAt(@, idx),
                                     !.selected_idx = NoIdx]

\* lines 272-287
on_press(s, button, c) ==
    IF c = Outside THEN s
    ELSE IF button = 1
    THEN LET idx == NearestIndex(s.xy, c)
         IN IF idx /= NoIdx
            THEN [PushUndo(s) EXCEPT !.selected_idx = idx,
                                     !.pressed = TRUE,
                                     !.dragging_idx = idx]
            ELSE [s EXCEPT !.selected_idx = NoIdx]
    ELSE IF button = 3 THEN AddPoint(PushUndo(s), c)
    ELSE s

\* lines 289-296: the assignment at line 294 raises for an index that is not in the
\* array
on_motion(s, c) ==
    IF ~s.pressed \/ s.dragging_idx = NoIdx THEN s
    ELSE IF c = Outside THEN s
    ELSE IF s.dragging_idx > Len(s.xy) THEN [s EXCEPT !.exc = "IndexError"]
    ELSE [s EXCEPT !.xy[s.dragging_idx] = c]

\* lines 298-300
on_release(s) == [s EXCEPT !.pressed = FALSE, !.dragging_idx = NoIdx]

\* the keys given to on_key, as matplotlib names them
Keys == {"delete", "s", "q", "z", "ctrl+z", "y", "ctrl+y", "]", "{", "a"}

\* lines 303-305
Ctrl(key) == key \in {"ctrl+z", "ctrl+y"}

KeyName(key) == IF key = "ctrl+z" THEN "z" ELSE IF key = "ctrl+y" THEN "y" ELSE key

\* lines 325-332
DeltaOfKey(k) ==
    IF k = "[" THEN 0 - SPEED_STEP_KPH
    ELSE IF k = "]" THEN SPEED_STEP_KPH
    ELSE IF k = "{" THEN 0 - SPEED_BIGSTEP_KPH
    ELSE SPEED_BIGSTEP_KPH

\* lines 320-332
SpeedKey(s, k, c) ==
    LET s1 == IF s.selected_idx = NoIdx /\ c /= Outside THEN SelectNearest(s, c) ELSE s
    IN IF s1.selected_idx /= NoIdx
       THEN BumpSpeed(PushUndo(s1), s1.selected_idx, DeltaOfKey(k))
       ELSE s1

NotSaved == -1

\* lines 383-405: the file has one row for each current point
Save(s) == [s EXCEPT !.save_csv = Len(s.xy)]

\* lines 302-332; `path` tells whether the save dialog gave a path
on_key(s, key, c, path) ==
    LET ctrl == Ctrl(key)
        k == KeyName(key)
    IN IF k \in {"delete", "backspace"} THEN DeleteSelectedNearest(s, c)
       ELSE IF k = "s" THEN (IF path THEN Save(s) ELSE s)
       ELSE IF k \in {"q", "escape"} THEN [s EXCEPT !.fig_open = FALSE]
       ELSE IF k = "z" /\ ctrl THEN Undo(s)
       ELSE IF k = "y" /\ ctrl THEN Redo(s)
       ELSE IF k \in {"[", "]", "{", "}"} THEN SpeedKey(s, k, c)
       ELSE s

\* lines 334-344
on_scroll(s, button, c) ==
    IF c = Outside THEN s
    ELSE LET s1 == IF s.selected_idx = NoIdx THEN SelectNearest(s, c) ELSE s
         IN IF s1.selected_idx = NoIdx THEN s1
            ELSE BumpSpeed(PushUndo(s1), s1.selected_idx,
                           SPEED_STEP_KPH * (IF button = "up" THEN 1 ELSE -1))

\* ---------------------------------------------------------------- actions
\* the editor after a callback
Becomes(s) ==
    /\ xy' = s.xy
    /\ sp_mps' = s.sp_mps
    /\ undo_stack' = s.undo_stack
    /\ redo_stack' = s.redo_stack
    /\ pressed' = s.pressed
    /\ dragging_idx' = s.dragging_idx
    /\ selected_idx' = s.selected_idx
    /\ exc' = s.exc
    /\ save_csv' = s.save_csv
    /\ fig_open' = s.fig_open
    /\ UNCHANGED othersOfEditor

\* where the cursor of an event may be
Cursor == Grid \cup {Outside}

\* button_press_event
OnPress ==
    /\ fig_open
    /\ Len(undo_stack) < MaxHistory
    /\ \E button \in {1, 2, 3}, c \in Cursor :
          /\ button = 3 => Len(xy) < MaxPoints
          /\ Becomes(on_press(Self, button, c))

\* motion_notify_event
OnMotion ==
    /\ fig_open
    /\ \E c \in Cursor : Becomes(on_motion(Self, c))

\* button_release_event
OnRelease ==
    /\ fig_open
    /\ Becomes(on_release(Self))

\* lines 182-210: _ask_save_path gives a path, or None when the dialog is cancelled
SaveDialog == BOOLEAN

\* key_press_event
OnKey ==
    /\ fig_open
    /\ \E key \in Keys, c \in Cursor, path \in SaveDialog :
          /\ key \in {"delete", "[", "]", "{", "}"} => Len(undo_stack) < MaxHistory
          /\ key /= "s" => path
          /\ Becomes(on_key(Self, key, c, path))

\* scroll_event
OnScroll ==
    /\ fig_open
    /\ Len(undo_stack) < MaxHistory
    /\ \E button \in {"up", "down"}, c \in Cursor :
          Becomes(on_scroll(Self, button, c))

IdleEditor ==
    /\ xy = <<>>
    /\ sp_mps = <<>>
    /\ undo_stack = <<>>
    /\ redo_stack = <<>>
    /\ pressed = FALSE
    /\ dragging_idx = NoIdx
    /\ selected_idx = NoIdx
    /\ exc = ""
    /\ save_csv = NotSaved
    /\ fig_open = FALSE

NoFile == [exists |-> FALSE, rows |-> <<>>]

IdleCenter ==
    /\ osm = [wellformed |-> FALSE, node |-> <<>>, way |-> <<>>, relation |-> <<>>]
    /\ node_xy = <<>>
    /\ pts = <<>>
    /\ out_csv = NoFile
    /\ error = ""

IdleProfile ==
    /\ npoints = 0
    /\ curvature = <<>>
    /\ base = 0
    /\ adjusted_speed = <<>>
    /\ speed = <<>>
    /\ ppc = "idle"

\* ----------------------------------------------------------- initial maps
MapNodeIds == 1..NumMapNodes

MapWayIds == 1..NumMapWays

\* node 1 is well-formed; the other nodes are well-formed or have a non-numeric lat;
\* no node has local_x, local_y tags
NodeElements ==
    {[i \in MapNodeIds |-> [id |-> i, lat |-> IF i \in bad THEN -1 ELSE 10 * i,
                            lon |-> 10 * i + 1, local_x |-> 0, local_y |-> 0]] :
        bad \in SUBSET (MapNodeIds \ {1})}

NoTags == EmptyDict

Tag(k, v) == [x \in {k} |-> v]

LaneletTags == {Tag("type", "lanelet"), Tag("type", "regulatory_element")}

\* members of relations: a way under each role or under another one, a node
MemberChoices ==
    [type : {"way"}, ref : MapWayIds, role : RoleSet \cup {"refers"}]
        \cup {[type |-> "node", ref |-> 1, role |-> "left"]}

\* a member with a ref and one without
FewMemberChoices ==
    {[type |-> "way", ref |-> 1, role |-> "left"],
     [type |-> "way", ref |-> 0, role |-> "left"]}

\* n relation elements with the given members and tags
RelationElements(n, ms, ts) ==
    [i \in 1..n |-> [id |-> 100 + i, member |-> ms[i], tags |-> ts[i]]]

WayTagChoices ==
    {NoTags, Tag("subtype", "left_lane_bound"), Tag("subtype", "right_lane_bound"),
     Tag("subtype", "center_lane_line"), Tag("subtype", "road_border"),
     Tag("lane_subtype", "left_lane_bound"),
     [k \in {"subtype", "lane_subtype"} |->
         IF k = "subtype" THEN "road_border" ELSE "left_lane_bound"]}

AllNodes ==
    [i \in MapNodeIds |-> [id |-> i, lat |-> 10 * i, lon |-> 10 * i + 1,
                           local_x |-> 0, local_y |-> 0]]

\* way w with the nodes w, w-1, .., 1 and no tags
PlainWay(w) == [id |-> w, nd |-> [i \in 1..w |-> w + 1 - i], tags |-> NoTags]

\* maps whose relations vary: every node is well-formed, the ways are plain and the
\* last one may be missing
IsRelationMap(doc) ==
    \E nw \in {NumMapWays - 1, NumMapWays}, n \in 0..MaxRelations :
        \E ms \in [1..n -> SeqsUpTo(MemberChoices, MaxMembers)], ts \in [1..n -> LaneletTags] :
            doc = [wellformed |-> TRUE, node |-> AllNodes,
                   way |-> [w \in 1..nw |-> PlainWay(w)],
                   relation |-> RelationElements(n, ms, ts)]

\* maps whose ways vary: at most one relation with at most one member
IsSubtypeMap(doc) ==
    \E ns \in NodeElements, n \in 0..1 :
        \E nds \in [MapWayIds -> SeqsUpTo(MapNodeIds, MaxNd)], wts \in [MapWayIds -> WayTagChoices],
           ms \in [1..n -> SeqsUpTo(FewMemberChoices, 1)], ts \in [1..n -> LaneletTags] :
            doc = [wellformed |-> TRUE, node |-> ns,
                   way |-> [w \in MapWayIds |-> [id |-> w, nd |-> nds[w], tags |-> wts[w]]],
                   relation |-> RelationElements(n, ms, ts)]

Unparsable == [wellformed |-> FALSE, node |-> <<>>, way |-> <<>>, relation |-> <<>>]

IdleChain ==
    /\ way_nodes = <<>>
    /\ centerline_way_ids = <<>>
    /\ sequences = <<>>
    /\ chained = <<>>
    /\ used = <<>>
    /\ dedup = <<>>
    /\ pc = "idle"

IdleExtract ==
    /\ root = Unparsable
    /\ nodes = EmptyDict
    /\ ways = <<>>
    /\ relations = <<>>
    /\ rel_res = EmptyRes
    /\ bounds = EmptyRes
    /\ info = ""
    /\ files = EmptyDict
    /\ xpc = "idle"
    /\ node_keys = <<>>
    /\ origin_latlon = None
    /\ raised = ""
    /\ has_pyproj = TRUE

\* lines 323-329: the command's start on a map document
InitExtract ==
    /\ IsRelationMap(root) \/ IsSubtypeMap(root) \/ root = Unparsable
    /\ nodes = EmptyDict
    /\ ways = <<>>
    /\ relations = <<>>
    /\ rel_res = EmptyRes
    /\ bounds = EmptyRes
    /\ info = ""
    /\ files = EmptyDict
    /\ xpc = "start"
    /\ node_keys = <<>>
    /\ origin_latlon = None
    /\ raised = ""
    /\ has_pyproj = TRUE
    /\ IdleChain
    /\ IdleProfile
    /\ IdleCenter
    /\ IdleSync
    /\ IdleEditor

NextExtract ==
    \/ MainConstruct
    \/ ParseAll
    \/ ExtractLaneBoundsStep
    \/ WriteRoles

SpecExtract == InitExtract /\ [][NextExtract]_vars

\* The inputs of chain_centerlines: candidate ids 1..n in input order and a way table
\* over some of them.
InitChain ==
    /\ \E n \in 0..MaxWays :
          /\ centerline_way_ids = [i \in 1..n |-> i]
          /\ \E present \in SUBSET (1..n) :
                way_nodes \in [present -> SeqsUpTo(NodeIds, MaxLen)]
    /\ sequences = <<>>
    /\ chained = <<>>
    /\ used = <<>>
    /\ dedup = <<>>
    /\ pc = "start"
    /\ IdleExtract
    /\ IdleProfile
    /\ IdleCenter
    /\ IdleSync
    /\ IdleEditor

NextChain ==
    \/ ChainCollect
    \/ ChainTailExtend
    \/ ChainHeadExtend
    \/ ChainConverge
    \/ ChainForceAppend
    \/ ChainDedup

SpecChain == InitChain /\ [][NextChain]_vars

\* The same inputs over the node ids 1..NumLiveNodes.
InitChainLive ==
    /\ \E n \in 0..MaxWays :
          /\ centerline_way_ids = [i \in 1..n |-> i]
          /\ \E present \in SUBSET (1..n) :
                way_nodes \in [present -> SeqsUpTo(1..NumLiveNodes, MaxLen)]
    /\ sequences = <<>>
    /\ chained = <<>>
    /\ used = <<>>
    /\ dedup = <<>>
    /\ pc = "start"
    /\ IdleExtract
    /\ IdleProfile
    /\ IdleCenter
    /\ IdleSync
    /\ IdleEditor

\* chain_centerlines is sequential code: a step that can be taken is taken
SpecChainLive == InitChainLive /\ [][NextChain]_vars /\ WF_vars(NextChain)

\* the arguments of a call of sync_topic
InitSync ==
    /\ data1 \in {Stamped(ts) : ts \in SortedStamps}
    /\ data2 \in {Stamped(ts) : ts \in SortedStamps}
    /\ idx2 = 0
    /\ sync_data = <<>>
    /\ result = <<>>
    /\ spc = "start"
    /\ IdleChain
    /\ IdleExtract
    /\ IdleProfile
    /\ IdleCenter
    /\ IdleEditor

NextSync ==
    \/ SyncStart
    \/ SyncStep
    \/ SyncReturn

SpecSync == InitSync /\ [][NextSync]_vars

\* the speeds of the trajectory that is loaded
InitSpeeds == {SPEED_MIN_KPH}

\* lines 130-156: the editor on a loaded trajectory
InitEditor ==
    /\ \E n \in 0..MaxInitPoints :
          /\ xy \in [1..n -> Grid]
          /\ sp_mps \in [1..n -> InitSpeeds]
    /\ undo_stack = <<>>
    /\ redo_stack = <<>>
    /\ pressed = FALSE
    /\ dragging_idx = NoIdx
    /\ selected_idx = NoIdx
    /\ exc = ""
    /\ save_csv = NotSaved
    /\ fig_open = TRUE
    /\ IdleChain
    /\ IdleExtract
    /\ IdleProfile
    /\ IdleCenter
    /\ IdleSync

NextEditor ==
    \/ OnPress
    \/ OnMotion
    \/ OnRelease
    \/ OnKey
    \/ OnScroll

SpecEditor == InitEditor /\ [][NextEditor]_vars

\* the profiler's start on a raceline of npoints points
InitProfile ==
    /\ npoints \in 0..MaxPts
    /\ curvature = <<>>
    /\ base = 0
    /\ adjusted_speed = <<>>
    /\ speed = <<>>
    /\ ppc = "start"
    /\ IdleChain
    /\ IdleExtract
    /\ IdleCenter
    /\ IdleSync
    /\ IdleEditor

NextProfile ==
    \/ ProfileCurvature
    \/ ProfileStep
    \/ ProfileSave

SpecProfile == InitProfile /\ [][NextProfile]_vars

\* ------------------------------------------- the extractor used as an object
MaxDocNodes == 2

\* node elements: well-formed ones, one that repeats an id, malformed ones, and one
\* whose latitude is "inf"
DocNodeChoices ==
    {[id |-> 1, lat |-> 10, lon |-> 11, local_x |-> 0, local_y |-> 0],
     [id |-> 1, lat |-> 30, lon |-> 31, local_x |-> 7, local_y |-> 8],
     [id |-> 2, lat |-> 20, lon |-> 21, local_x |-> -1, local_y |-> 5],
     [id |-> 2, lat |-> 0, lon |-> 21, local_x |-> 0, local_y |-> 0],
     [id |-> 2, lat |-> 20, lon |-> -1, local_x |-> 0, local_y |-> 0],
     [id |-> 0, lat |-> 20, lon |-> 21, local_x |-> 0, local_y |-> 0],
     [id |-> 2, lat |-> Inf, lon |-> 21, local_x |-> 0, local_y |-> 0]}

DocWays ==
    <<[id |-> 1, nd |-> <<1, 2>>, tags |-> Tag("subtype", "left_lane_bound")],
      [id |-> 2, nd |-> <<2>>, tags |-> NoTags]>>

DocRelationChoices ==
    {<<>>,
     <<[id |-> 101, member |-> <<[type |-> "way", ref |-> 2, role |-> "right"]>>,
        tags |-> Tag("type", "lanelet")]>>}

\* the origin_latlon argument when one is given
ExplicitOrigin == <<5, 6>>

\* what an output file holds before the run
StaleRows == <<<<0, "stale", 0, 0, 0, <<>>, 0, 0>>>>

PriorFiles ==
    [f \in {RoleFile(role) : role \in RoleSet} \cup {OutputFile, SingleFile} |-> StaleRows]

\* lines 36-45: the constructor's arguments, and the files already there
InitApi ==
    /\ \/ \E ns \in SeqsUpTo(DocNodeChoices, MaxDocNodes), rs \in DocRelationChoices :
             root = [wellformed |-> TRUE, node |-> ns, way |-> DocWays, relation |-> rs]
       \/ root = Unparsable
    /\ origin_latlon \in {None, ExplicitOrigin}
    /\ files \in {EmptyDict, PriorFiles}
    /\ nodes = EmptyDict
    /\ node_keys = <<>>
    /\ ways = <<>>
    /\ relations = <<>>
    /\ rel_res = EmptyRes
    /\ bounds = EmptyRes
    /\ info = ""
    /\ raised = ""
    /\ has_pyproj \in BOOLEAN
    /\ xpc = "start"
    /\ IdleChain
    /\ IdleProfile
    /\ IdleCenter
    /\ IdleSync
    /\ IdleEditor

NextApi ==
    \/ MainConstruct
    \/ CallParseNodes
    \/ CallParseWaysAndRelations
    \/ CallLatLonToXY
    \/ ExportRoleToCsv
    \/ ExportAllRolesToDir
    \/ ExportAllToSingleCsv

SpecApi == InitApi /\ [][NextApi]_vars

\* ------------------------------------------------- the centerline command
\* the node element of id k: with local_x, local_y; with x, y only; with a local_x
\* that is no number; without coordinates; without id; with an id that is no number
NodeVariants(k) ==
    {[id |-> k, local_x |-> 10 * k, local_y |-> 1, x |-> 0, y |-> 0],
     [id |-> k, local_x |-> 0, local_y |-> 0, x |-> 10 * k, y |-> 2],
     [id |-> k, local_x |-> -1, local_y |-> 1, x |-> 10 * k, y |-> 2],
     [id |-> k, local_x |-> 0, local_y |-> 0, x |-> 0, y |-> 0],
     [id |-> 0, local_x |-> 10 * k, local_y |-> 1, x |-> 0, y |-> 0],
     [id |-> -1, local_x |-> 10 * k, local_y |-> 1, x |-> 0, y |-> 0]}

OsmNodeElements ==
    {<<n1, n2, n3>> :
        n1 \in {n \in NodeVariants(1) : Present(n.local_x) /\ ~NonNumeric(n.id)},
        n2 \in NodeVariants(2),
        n3 \in {n \in NodeVariants(3) : n.id = 3 /\ ~NonNumeric(n.local_x) /\ Missing(n.x)}}

\* the nd refs of way 1 and of way 2; 0 is an nd without ref
FirstWayRefs == SeqsUpTo(1..3, 2) \cup {<<1, 2, 3>>, <<1, 2, 2>>, <<1, 0, 2>>}

SecondWayRefs == {<<>>, <<2, 3>>, <<3, 2>>, <<3, 1>>}

Member(ref) == [type |-> "way", ref |-> ref, role |-> "centerline"]

OsmRelationChoices ==
    {<<>>,
     <<[id |-> 101, member |-> <<Member(1)>>, tags |-> Tag("type", "regulatory_element")]>>}
    \cup {<<[id |-> 101, member |-> ms, tags |-> Tag("type", "lanelet")]>> :
             ms \in {<<Member(1)>>, <<Member(1), Member(2)>>, <<Member(2), Member(1)>>}}

\* what the output file holds before the run
StaleFile == [exists |-> TRUE, rows |-> <<<<0, 0, <<0, 0>>>>>>]

\* lines 182-189: the command's start on a map document
InitCenterline ==
    /\ \/ \E ns \in OsmNodeElements, r1 \in FirstWayRefs, r2 \in SecondWayRefs,
             rs \in OsmRelationChoices :
             osm = [wellformed |-> TRUE, node |-> ns,
                    way |-> <<[id |-> 1, nd |-> r1], [id |-> 2, nd |-> r2]>>,
                    relation |-> rs]
       \/ osm = [wellformed |-> FALSE, node |-> <<>>, way |-> <<>>, relation |-> <<>>]
    /\ out_csv \in {NoFile, StaleFile}
    /\ node_xy = <<>>
    /\ pts = <<>>
    /\ error = ""
    /\ way_nodes = <<>>
    /\ centerline_way_ids = <<>>
    /\ sequences = <<>>
    /\ chained = <<>>
    /\ used = <<>>
    /\ dedup = <<>>
    /\ pc = "load"
    /\ IdleExtract
    /\ IdleProfile
    /\ IdleSync
    /\ IdleEditor

NextCenterline ==
    \/ LoadMap
    \/ ChainCollect
    \/ ChainTailExtend
    \/ ChainHeadExtend
    \/ ChainConverge
    \/ ChainForceAppend
    \/ ChainDedup
    \/ WriteCsvFilter
    \/ WriteCsvOpen
    \/ WriteCsvRow
    \/ WriteCsvClose

SpecCenterline == InitCenterline /\ [][NextCenterline]_vars

\* ------------------------------------------------------------ claims C1-C5
NoAdjacentRepeat(s) == \A i \in 1..(Len(s) - 1) : s[i] /= s[i + 1]

Count(s, n) == Cardinality({i \in 1..Len(s) : s[i] = n})

RECURSIVE CountIn(_, _)
CountIn(seqs, n) ==
    IF seqs = <<>> THEN 0 ELSE Count(Head(seqs), n) + CountIn(Tail(seqs), n)

\* s with every run of equal neighbours reduced to its first entry
Collapsed(s) ==
    LET keep == {i \in 1..Len(s) : i = 1 \/ s[i] /= s[i - 1]}
    IN [k \in 1..Cardinality(keep) |->
           s[CHOOSE i \in keep : Cardinality({j \in keep : j <= i}) = k]]

\* two usable sequences, the first ending where the second starts, no other
\* endpoints equal
TwoJoined ==
    /\ pc = "done"
    /\ Len(sequences) = 2
    /\ Last(sequences[1]) = sequences[2][1]
    /\ sequences[1][1] /= Last(sequences[1])
    /\ Last(sequences[2]) /= sequences[2][1]
    /\ sequences[1][1] /= Last(sequences[2])

\* C1 as stated: for two sequences s1, s2 with last(s1) = first(s2) and no other
\* endpoints equal, the result is s1 followed by s2 without its first node.
C1_AsStated ==
    TwoJoined => dedup = sequences[1] \o Tail(sequences[2])

\* C1 amended: for such s1, s2 the result is s1 followed by s2 without its first
\* node, with every run of consecutive equal node ids collapsed to one; it is
\* exactly s1 followed by s2 without its first node when neither sequence has a
\* consecutive repeat.
C1_JoinedAtSharedEndpoint ==
    TwoJoined =>
        /\ dedup = Collapsed(sequences[1] \o Tail(sequences[2]))
        /\ (NoAdjacentRepeat(sequences[1]) /\ NoAdjacentRepeat(sequences[2])
               => dedup = sequences[1] \o Tail(sequences[2]))

C1_Witness ==
    /\ TwoJoined
    /\ Len(sequences[1]) = 3 /\ Len(sequences[2]) = 3
    /\ NoAdjacentRepeat(sequences[1]) /\ NoAdjacentRepeat(sequences[2])
    /\ Len(dedup) = 5

\* C2 as stated: for every input, each node id is at one position of the result
\* at most.
C2_AsStated ==
    pc = "done" => \A i, j \in 1..Len(dedup) : dedup[i] = dedup[j] => i = j

\* C2 amended: a node id is at no more positions of the result than it has in the
\* usable input sequences together; so when no node id occurs twice in the usable
\* inputs, each node id is at one position of the result at most.
C2_NoNodeMultiplied ==
    pc = "done" =>
        /\ \A n \in NodeIds : Count(dedup, n) <= CountIn(sequences, n)
        /\ ((\A n \in NodeIds : CountIn(sequences, n) <= 1)
               => \A i, j \in 1..Len(dedup) : dedup[i] = dedup[j] => i = j)

C2_Witness ==
    /\ pc = "done"
    /\ Len(sequences) = 2
    /\ Last(sequences[1]) = Last(sequences[2])
    /\ \A n \in NodeIds : Count(dedup, n) <= 1
    /\ Len(dedup) = 3

\* C3: no two adjacent entries of the returned polyline are the same node id.
C3_NoAdjacentDuplicates ==
    pc = "done" => NoAdjacentRepeat(dedup)

\* an input with a consecutive repeat, a sequence left over by the greedy loop, and
\* a polyline that had equal neighbours before the final pass
C3_Witness ==
    /\ pc = "done"
    /\ \E i \in 1..Len(sequences) : ~NoAdjacentRepeat(sequences[i])
    /\ \E i \in 1..Len(sequences) : ~used[i]
    /\ ~NoAdjacentRepeat(chained)

\* C4: a single sequence of length >= 2 without consecutive repeats is returned
\* as it is.
C4_SingleSequenceUnchanged ==
    (pc = "done" /\ Len(sequences) = 1 /\ NoAdjacentRepeat(sequences[1]))
        => dedup = sequences[1]

C4_Witness ==
    /\ pc = "done"
    /\ Len(centerline_way_ids) = 1
    /\ Len(sequences) = 1
    /\ NoAdjacentRepeat(sequences[1])
    /\ Len(sequences[1]) = 3
    /\ sequences[1][1] = sequences[1][3]

UsableCandidates ==
    {k \in 1..Len(centerline_way_ids) :
        /\ centerline_way_ids[k] \in DOMAIN way_nodes
        /\ Len(way_nodes[centerline_way_ids[k]]) >= 2}

\* C5: chain_centerlines fails exactly when every candidate way id is missing from
\* the way table or has fewer than 2 nodes; on failure nothing is returned, and
\* otherwise the result holds nodes of the candidates with 2 or more nodes only.
C5_FailsIffNoUsableCandidate ==
    /\ pc /= "start" => (pc = "error" <=> UsableCandidates = {})
    /\ pc = "error" => dedup = <<>>
    /\ pc /= "start" => Len(sequences) = Cardinality(UsableCandidates)
    /\ pc = "done" =>
          Range(dedup) \subseteq
              UNION {Range(way_nodes[centerline_way_ids[k]]) : k \in UsableCandidates}

\* a run that returns although one candidate is missing and another has a single
\* node, which is in no other candidate
C5_Witness ==
    /\ pc = "done"
    /\ Len(centerline_way_ids) = 3
    /\ \E k \in 1..3 : centerline_way_ids[k] \notin DOMAIN way_nodes
    /\ \E k \in 1..3 :
          /\ centerline_way_ids[k] \in DOMAIN way_nodes
          /\ Len(way_nodes[centerline_way_ids[k]]) = 1
          /\ way_nodes[centerline_way_ids[k]][1] \notin Range(dedup)

\* ----------------------------------------------------------- claims C6-C10
Extracted == xpc \in {"extracted", "exit"}

\* C6: extract_lane_bounds returns the way-subtype result if and only if the
\* relation-based result has no point in any role; a relation-based result with a
\* point in some role is returned as it is, empty roles included.
C6_FallbackIffNoRelationPoint ==
    Extracted =>
        LET rel == ExtractByRelations(relations, ways, nodes)
            way == ExtractByWaySubtype(ways, nodes)
        IN /\ info = "way-subtype" <=> Total(rel) = 0
           /\ info = "relations" <=> Total(rel) > 0
           /\ Total(rel) > 0 => bounds = rel
           /\ Total(rel) = 0 => bounds = way

\* the relation-based result is returned with its right role empty although a way
\* tagged right_lane_bound has points
C6_Witness ==
    /\ xpc = "exit"
    /\ info = "relations"
    /\ bounds["left"] /= <<>>
    /\ bounds["right"] = <<>>
    /\ ExtractByWaySubtype(ways, nodes)["right"] /= <<>>

\* the first member of rel, in member order, of type way and the given role; 0 when
\* there is none
FirstWayMember(rel, role) ==
    LET hits == {k \in 1..Len(rel.members) :
                    rel.members[k].type = "way" /\ rel.members[k].role = role}
    IN IF hits = {} THEN 0 ELSE CHOOSE k \in hits : \A j \in hits : k <= j

RECURSIVE FirstMemberPoints(_, _)
FirstMemberPoints(rs, role) ==
    IF rs = <<>> THEN <<>>
    ELSE LET rel == Head(rs)
             k == FirstWayMember(rel, role)
         IN (IF TagGet(rel.tags, "type") = "lanelet" /\ k /= 0
             THEN Entries(rel.id, CoordsOfWay(ways, nodes, rel.members[k].ref))
             ELSE <<>>)
            \o FirstMemberPoints(Tail(rs), role)

\* C7: the relation-based result of a role is made, relation by relation, of the
\* points of the way of the first member of type way with that role in each lanelet
\* relation; later members of the role, members that are not ways and relations
\* that are not lanelets add nothing.
C7_FirstMemberPerRole ==
    Extracted => \A role \in RoleSet : rel_res[role] = FirstMemberPoints(relations, role)

\* a lanelet relation with two left members on different ways, and a relation that
\* is no lanelet with a left member
C7_Witness ==
    /\ xpc = "exit"
    /\ \E i, j \in 1..Len(relations) :
          /\ TagGet(relations[i].tags, "type") = "lanelet"
          /\ Len(relations[i].members) = 2
          /\ \A k \in 1..2 : /\ relations[i].members[k].type = "way"
                            /\ relations[i].members[k].role = "left"
          /\ relations[i].members[1].ref /= relations[i].members[2].ref
          /\ HasKey(ways, relations[i].members[2].ref)
          /\ TagGet(relations[j].tags, "type") /= "lanelet"
          /\ FirstWayMember(relations[j], "left") /= 0
    /\ rel_res["left"] /= <<>>

NodeCount(wid) == IF HasKey(ways, wid) THEN Len(DictGet(ways, wid).node_ids) ELSE 0

RoleMembers(rel, role) ==
    {k \in 1..Len(rel.members) : rel.members[k].type = "way" /\ rel.members[k].role = role}

LaneletRelations == {i \in 1..Len(relations) : TagGet(relations[i].tags, "type") = "lanelet"}

\* some lanelet relation has a left, right or centerline member, and every node of
\* every way so referenced is in the node table
C8_Maps ==
    /\ Extracted
    /\ \E i \in LaneletRelations, role \in RoleSet : RoleMembers(relations[i], role) /= {}
    /\ \A i \in LaneletRelations, role \in RoleSet :
          \A k \in RoleMembers(relations[i], role) :
             HasKey(ways, relations[i].members[k].ref)
                => Range(DictGet(ways, relations[i].members[k].ref).node_ids)
                      \subseteq DOMAIN nodes

RECURSIVE SumOver(_, _)
SumOver(S, f) ==
    IF S = {} THEN 0
    ELSE LET x == CHOOSE y \in S : TRUE IN f[x] + SumOver(S \ {x}, f)

\* the node counts of the ways of all members with the role, over the lanelet relations
AllMembersCount(role) ==
    SumOver(LaneletRelations,
            [i \in LaneletRelations |->
                SumOver(RoleMembers(relations[i], role),
                        [k \in RoleMembers(relations[i], role) |->
                            NodeCount(relations[i].members[k].ref)])])

\* the node counts of the ways of the first member with the role of each lanelet relation
FirstMembersCount(role) ==
    SumOver(LaneletRelations,
            [i \in LaneletRelations |->
                IF FirstWayMember(relations[i], role) = 0 THEN 0
                ELSE NodeCount(relations[i].members[FirstWayMember(relations[i], role)].ref)])

\* C8 as stated: the points of a role are as many as the nodes of the ways
\* referenced with that role.
C8_AsStated ==
    C8_Maps => \A role \in RoleSet : Len(rel_res[role]) = AllMembersCount(role)

\* C8 amended: the points of a role are as many as the nodes of the ways referenced
\* by the first member with that role of each lanelet relation.
C8_CountOfFirstMembers ==
    C8_Maps => \A role \in RoleSet : Len(rel_res[role]) = FirstMembersCount(role)

\* two lanelet relations with left members on ways of 2 and 1 nodes
C8_Witness ==
    /\ C8_Maps
    /\ xpc = "exit"
    /\ Cardinality(LaneletRelations) = 2
    /\ \A i \in LaneletRelations : FirstWayMember(relations[i], "left") /= 0
    /\ Len(rel_res["left"]) = 3
    /\ Len(rel_res["centerline"]) = 1

BoundSubtypes == {"left_lane_bound", "right_lane_bound", "center_lane_line"}

\* C9 as stated: with no point from relations and a way whose subtype is
\* left_lane_bound, right_lane_bound or center_lane_line, the fallback is taken and
\* its result has a point in some role.
C9_AsStated ==
    (/\ Extracted
     /\ Total(rel_res) = 0
     /\ \E i \in 1..Len(ways) : TagGet(ways[i].tags, "subtype") \in BoundSubtypes)
        => info = "way-subtype" /\ Total(bounds) > 0

\* C9 amended: the same when such a way has at least one node that is in the node
\* table.
C9_FallbackNonEmpty ==
    (/\ Extracted
     /\ Total(rel_res) = 0
     /\ \E i \in 1..Len(ways) :
           /\ TagGet(ways[i].tags, "subtype") \in BoundSubtypes
           /\ Range(ways[i].node_ids) \cap DOMAIN nodes /= {})
        => info = "way-subtype" /\ Total(bounds) > 0

\* a lanelet relation that yields no point, and a center_lane_line way with a node
\* that is missing and one that is present
C9_Witness ==
    /\ xpc = "exit"
    /\ LaneletRelations /= {}
    /\ info = "way-subtype"
    /\ \E i \in 1..Len(ways) :
          /\ TagGet(ways[i].tags, "subtype") = "center_lane_line"
          /\ Len(ways[i].node_ids) = 2
          /\ Len(bounds["centerline"]) = 1

\* C10: a run that extracts no boundary point in any role does not complete
\* normally (with header-only files); it ends in an error.
C10_NoDataIsFatal ==
    xpc = "exit" => Total(bounds) > 0

\* ---------------------------------------------------------- claims C11-C15
\* the indices the loop has handled
Handled == 1..Len(adjusted_speed)

\* curvature[j] - curvature[i] > 0.001
Rises(j, i) ==
    /\ j \in 1..Len(curvature)
    /\ curvature[j] /= NaN /\ curvature[i] /= NaN
    /\ curvature[j] - curvature[i] > 1

\* C11: at every index where the entry condition and the exit condition both hold,
\* the speed is base_speed(curvature[i]) * 0.95, and it is not the exit value.
C11_EntryBeforeExit ==
    \A i \in Handled :
        (Rises(i + lookahead, i) /\ Rises(i - lookahead, i))
            => /\ adjusted_speed[i] * 100 = base_speed(curvature[i]) * 95
               /\ adjusted_speed[i] /= Min((base_speed(curvature[i]) * 110) \div 100, 105000)

\* both conditions hold at an index of the 10.20 band
C11_Witness ==
    /\ ppc = "done"
    /\ \E i \in 1..Len(speed) :
          /\ Rises(i + lookahead, i) /\ Rises(i - lookahead, i)
          /\ curvature[i] = 50
          /\ speed[i] = 96900

\* the indices where the exit adjustment was applied
ExitTaken == {i \in Handled : ~Rises(i + lookahead, i) /\ Rises(i - lookahead, i)}

\* C12: every speed produced by the exit adjustment is at most 10.50 m/s, for each
\* of the four base speeds, all of which exceed 10.50 when multiplied by 1.10.
C12_ExitCapped ==
    \A i \in ExitTaken :
        /\ adjusted_speed[i] <= 105000
        /\ base_speed(curvature[i]) * 110 > 105000 * 100

\* one path on which the exit adjustment is applied under each of the four bases
C12_Witness ==
    /\ ppc = "done"
    /\ {base_speed(curvature[i]) : i \in ExitTaken} = {105000, 104500, 102000, 99000}
    /\ \A i \in ExitTaken : speed[i] = 105000

Straight == ppc \in {"loop", "done"} /\ \A i \in 1..Len(curvature) : curvature[i] = 0

\* C13: on a path of curvature 0 everywhere, of a length below, equal to or above
\* the lookahead, every speed is 10.50 m/s and no trend adjustment triggers.
C13_StraightUniform ==
    Straight =>
        /\ \A i \in Handled :
              /\ adjusted_speed[i] = 105000
              /\ ~Rises(i + lookahead, i) /\ ~Rises(i - lookahead, i)
        /\ ppc = "done" => speed = [i \in 1..npoints |-> 105000]

\* a straight path long enough for both neighbours of an index to be in range
C13_Witness ==
    /\ Straight
    /\ ppc = "done"
    /\ npoints > 2 * lookahead
    /\ \A i \in 1..npoints : speed[i] = 105000

\* the table of section 4.5, over |c|
Band(a) ==
    CASE a < 20 -> 105000
      [] a >= 20 /\ a < 50 -> 104500
      [] a >= 50 /\ a < 100 -> 102000
      [] a >= 100 -> 99000

\* C14: base_speed gives 10.50, 10.45, 10.20, 9.90 by the band of |c|; c and -c
\* give the same base speed; 0.02, 0.05 and 0.10 themselves are in the slower band.
C14_BaseSpeedTable ==
    /\ \A i \in Handled :
          (i = Len(adjusted_speed) /\ curvature[i] /= NaN)
              => /\ base = Band(IF curvature[i] < 0 THEN 0 - curvature[i] ELSE curvature[i])
                 /\ (curvature[i] \in {20, -20} => base = 104500)
                 /\ (curvature[i] \in {50, -50} => base = 102000)
                 /\ (curvature[i] \in {100, -100} => base = 99000)
    /\ (Len(curvature) = 2 /\ Len(adjusted_speed) = 2 /\ curvature[1] /= NaN
           /\ curvature[2] = 0 - curvature[1])
          => adjusted_speed[1] = adjusted_speed[2]

C14_Witness ==
    /\ ppc = "done"
    /\ curvature = <<50, -50>>
    /\ base = 102000
    /\ speed = <<102000, 102000>>

\* C15: the saved list has one speed per point, the i-th computed from index i,
\* for every length of the path; no path of 2 or more points fails.
C15_OneSpeedPerPoint ==
    /\ Len(adjusted_speed) <= Len(curvature)
    /\ ppc \in {"loop", "done"} => Len(curvature) = npoints
    /\ npoints >= 2 => ppc /= "failed"
    /\ ppc = "done" =>
          /\ Len(speed) = npoints
          /\ \A i \in 1..npoints : speed[i] = Adjusted(curvature, i, base_speed(curvature[i]))

\* a path shorter than the lookahead whose points have different speeds
C15_Witness ==
    /\ ppc = "done"
    /\ npoints = 3
    /\ Len(speed) = 3
    /\ speed[1] /= speed[2]

\* ---------------------------------------------------------- claims C16-C19
\* C16: a call that ends in an error leaves every output file as it was before the
\* call: no file is truncated or partially written on a path that raises.
C16_FailedCallKeepsFiles ==
    [][raised' /= "" => files' = files]_vars

\* the stitched ids that are in the node table, in stitched order
KeptIds == SelectSeq(dedup, LAMBDA nid : nid \in DOMAIN node_xy)

\* C17: write_csv fails, and leaves the output file untouched, exactly when fewer
\* than 2 of the stitched ids have coordinates; ids without coordinates are skipped
\* and otherwise one row is written per remaining point, in stitched order.
C17_WriteCsvNeedsTwoPoints ==
    /\ pc \in {"write_failed", "open", "rows", "exit"}
          => (pc = "write_failed" <=> Len(KeptIds) < 2)
    /\ pc = "write_failed" => out_csv \in {NoFile, StaleFile} /\ error = "RuntimeError"
    /\ pc \in {"rows", "exit"} =>
          /\ out_csv.exists
          /\ Len(out_csv.rows) <= Len(KeptIds)
          /\ \A i \in 1..Len(out_csv.rows) :
                <<out_csv.rows[i][1], out_csv.rows[i][2]>> = node_xy[KeptIds[i]]
    /\ pc = "exit" => Len(out_csv.rows) = Len(KeptIds)

\* three stitched ids of which one has coordinates: the run fails and the file of
\* an earlier run is as it was
C17_Witness ==
    /\ pc = "write_failed"
    /\ Len(dedup) = 3
    /\ Len(KeptIds) = 1
    /\ out_csv = StaleFile

\* C18: loading a map never fails because of a malformed value of one node.
C18_NodeNeverFatal ==
    pc = "load_failed" => error \in {"ParseError", "RuntimeError"}

\* the node elements parse_nodes accepts, in document order
AcceptedElements == SelectSeq(root.node, Accepted)

\* the latitude and longitude of the last accepted element with the id
RECURSIVE LatLonOfId(_, _, _)
LatLonOfId(found, elems, id) ==
    IF elems = <<>> THEN found
    ELSE LatLonOfId(IF Head(elems).id = id THEN <<Head(elems).lat, Head(elems).lon>> ELSE found,
                    Tail(elems), id)

\* the origin was taken from the nodes
Derived == origin_latlon /= None /\ origin_latlon /= ExplicitOrigin

\* the rows written by this run, over all files
WrittenRows ==
    UNION {{files[f][i] : i \in 1..Len(files[f])} : f \in {g \in DOMAIN files : files[g] /= StaleRows}}

\* C19 as stated: an origin that was not given is the latitude and longitude of the
\* first node element, in document order, that was accepted.
C19_AsStated ==
    Derived =>
        origin_latlon = <<AcceptedElements[1].lat, AcceptedElements[1].lon>>

\* C19 amended: an origin that was not given is, once a node is in the table, the
\* latitude and longitude the table holds under the id of the first accepted node
\* element: those of the last accepted element with that id, so those of the first
\* accepted element when no later one repeats its id.  An origin, given or so
\* derived, is never changed by a later call, and every row written is projected
\* against it.
C19_OriginFixed ==
    /\ [](node_keys /= <<>> => origin_latlon /= None)
    /\ [](Derived =>
            /\ AcceptedElements /= <<>>
            /\ origin_latlon = LatLonOfId(None, AcceptedElements, AcceptedElements[1].id)
            /\ ((\A k \in 2..Len(AcceptedElements) :
                    AcceptedElements[k].id /= AcceptedElements[1].id)
                   => origin_latlon = <<AcceptedElements[1].lat, AcceptedElements[1].lon>>))
    /\ [](\A row \in WrittenRows : <<row[6][3], row[6][4]>> = origin_latlon)
    /\ [][origin_latlon /= None => origin_latlon' = origin_latlon]_vars

\* no origin given, a first node element that is rejected, and rows written by two
\* exports against the second element's position
C19_Witness ==
    /\ Derived
    /\ Len(root.node) = 2
    /\ ~Accepted(root.node[1])
    /\ origin_latlon = <<root.node[2].lat, root.node[2].lon>>
    /\ OutputFile \in DOMAIN files /\ SingleFile \in DOMAIN files
    /\ files[OutputFile] /= StaleRows /\ files[OutputFile] /= <<>>
    /\ files[SingleFile] /= StaleRows /\ files[SingleFile] /= <<>>

\* ---------------------------------------------------------------- claim C20
\* the sequences a pass of the greedy loop consumes
Consumed(i) == i \in 1..Len(sequences) /\ ~used[i] /\ used'[i]

\* two usable sequences that end at the same node, the second not starting there
TwoTailToTail ==
    /\ pc = "done"
    /\ Len(sequences) = 2
    /\ Last(sequences[2]) = Last(sequences[1])
    /\ sequences[2][1] /= Last(sequences[1])

\* C20: a pass that consumes an unused sequence whose tail, and not its head, is the
\* current tail appends it reversed without the shared endpoint; a pass that
\* consumes, for want of a tail extension, a sequence whose head, and not its tail,
\* is the current head prepends it reversed without the shared endpoint; so
\* [A,B,C] followed by [E,D,C] gives [A,B,C,D,E].
C20_ReversedJoin ==
    /\ [][(pc = "loop" /\ pc' = "loop") =>
            \A i \in 1..Len(sequences) :
                Consumed(i) =>
                    /\ (Last(sequences[i]) = Last(chained) /\ sequences[i][1] /= Last(chained))
                          => chained' = chained \o Reverse(Front(sequences[i]))
                    /\ (/\ sequences[i][1] = chained[1]
                        /\ Last(sequences[i]) /= chained[1]
                        /\ \A j \in 1..Len(sequences) :
                              ~used[j] => /\ sequences[j][1] /= Last(chained)
                                          /\ Last(sequences[j]) /= Last(chained))
                          => chained' = Reverse(Tail(sequences[i])) \o chained]_vars
    /\ [](TwoTailToTail =>
            /\ dedup = Collapsed(sequences[1] \o Reverse(Front(sequences[2])))
            /\ (NoAdjacentRepeat(sequences[1]) /\ NoAdjacentRepeat(sequences[2])
                   => dedup = sequences[1] \o Reverse(Front(sequences[2]))))

\* [2,3] takes [4,3] reversed at its tail and then [2,1] reversed at its head
C20_Witness ==
    /\ pc = "done"
    /\ sequences = <<<<2, 3>>, <<4, 3>>, <<2, 1>>>>
    /\ \A i \in 1..3 : used[i]
    /\ dedup = <<1, 2, 3, 4>>

\* ---------------------------------------------------------------- claim C21
\* the unused sequences with an endpoint at node `at`
UnusedAt(at) ==
    {j \in 1..Len(sequences) :
        ~used[j] /\ (sequences[j][1] = at \/ Last(sequences[j]) = at)}

\* chained' is chained with something put after it, or before it
ExtendedAtTail == Len(chained') > Len(chained) /\ SubSeq(chained', 1, Len(chained)) = chained

ExtendedAtHead ==
    /\ Len(chained') > Len(chained)
    /\ SubSeq(chained', Len(chained') - Len(chained) + 1, Len(chained')) = chained

\* C21: a pass of the loop that consumes a sequence takes the earliest unused
\* sequence with an endpoint at the current tail and puts it after the tail; only
\* when no unused sequence has an endpoint at the current tail does it take the
\* earliest unused sequence with an endpoint at the current head and put it before
\* the head.
C21_TailBeforeHead ==
    [][(pc = "loop" /\ pc' = "loop") =>
          \E i \in 1..Len(sequences) :
             /\ Consumed(i)
             /\ used' = [used EXCEPT ![i] = TRUE]
             /\ IF UnusedAt(Last(chained)) /= {}
                THEN /\ i \in UnusedAt(Last(chained))
                     /\ \A j \in UnusedAt(Last(chained)) : i <= j
                     /\ ExtendedAtTail
                     /\ chained'[1] = chained[1]
                ELSE /\ i \in UnusedAt(chained[1])
                     /\ \A j \in UnusedAt(chained[1]) : i <= j
                     /\ ExtendedAtHead
                     /\ Last(chained') = Last(chained)]_vars

\* [1,2] with [2,1] and [3,2] unused: both have an endpoint at the tail 2 and
\* [2,1] also has one at the head 1; the pass took [2,1], the earliest at the tail,
\* and put it after the tail
C21_Witness ==
    /\ pc = "loop"
    /\ Len(sequences) = 3
    /\ sequences[1] = <<1, 2>>
    /\ sequences[2] = <<2, 1>>
    /\ sequences[3] = <<3, 2>>
    /\ used = <<TRUE, TRUE, FALSE>>
    /\ chained = <<1, 2, 1>>

\* ---------------------------------------------------------------- claim C22
\* one leftover sequence put after the result
JoinedAfter(ch, s) ==
    IF Last(ch) = s[1] THEN ch \o Tail(s)
    ELSE IF Last(ch) = Last(s) THEN ch \o Reverse(Front(s))
    ELSE ch \o s

\* the leftover sequences from index i on, put after the result one by one
RECURSIVE AllJoinedAfter(_, _)
AllJoinedAfter(ch, i) ==
    IF i > Len(sequences) THEN ch
    ELSE AllJoinedAfter(IF used[i] THEN ch ELSE JoinedAfter(ch, sequences[i]), i + 1)

\* C22: the step after the greedy loop puts every unused sequence after the tail,
\* in input order: without its first node when the result ends at its head,
\* reversed without its last node when the result ends at its tail, in full
\* otherwise; the result so far stays at the front and every node of every leftover
\* sequence is in the result.
C22_LeftoversAppended ==
    [][pc = "leftover" =>
          /\ chained' = AllJoinedAfter(chained, 1)
          /\ SubSeq(chained', 1, Len(chained)) = chained
          /\ \A i \in 1..Len(sequences) :
                ~used[i] => Range(sequences[i]) \subseteq Range(chained')]_vars

\* [1,2] consumes nothing; [3,4] is appended in full and [4,3], whose head is the
\* new tail, without its first node
C22_Witness ==
    /\ pc = "collapse"
    /\ sequences = <<<<1, 2>>, <<3, 4>>, <<4, 3>>>>
    /\ used = <<TRUE, FALSE, FALSE>>
    /\ chained = <<1, 2, 3, 4, 3>>

\* ---------------------------------------------------------------- claim C25
\* the node ids of the candidate ways with 2 or more nodes
UsableNodeIds == UNION {Range(way_nodes[centerline_way_ids[k]]) : k \in UsableCandidates}

\* C25: when chain_centerlines returns, the node ids of the result are exactly the
\* node ids of the candidate ways with 2 or more nodes.
C25_NodeSetPreserved ==
    pc = "done" => Range(dedup) = UsableNodeIds

\* [1,2] takes [3,2] reversed at its tail, [4,4] is left over and appended, and its
\* repeat is collapsed
C25_Witness ==
    /\ pc = "done"
    /\ sequences = <<<<1, 2>>, <<3, 2>>, <<4, 4>>>>
    /\ used = <<TRUE, TRUE, FALSE>>
    /\ chained = <<1, 2, 3, 4, 4>>
    /\ dedup = <<1, 2, 3, 4>>

\* ---------------------------------------------------------------- claim C26
\* the sequences consumed so far, the first one included
UsedSet == {i \in 1..Len(used) : used[i]}

\* C26: every pass of the greedy loop that goes on marks exactly one sequence that
\* was unused as used and makes the result longer, a used sequence stays used, so
\* the extensions made are one fewer than the used sequences and at most the number
\* of usable sequences minus 1; and chain_centerlines always comes to its end.
C26_LoopTerminates ==
    /\ [][(pc = "loop" /\ pc' = "loop") =>
             /\ \E i \in 1..Len(sequences) :
                   /\ ~used[i]
                   /\ used' = [used EXCEPT ![i] = TRUE]
             /\ Cardinality(UsedSet') = Cardinality(UsedSet) + 1
             /\ Len(chained') > Len(chained)]_vars
    /\ [][pc /= "start" => UsedSet \subseteq UsedSet']_vars
    /\ [](pc \in {"loop", "leftover", "collapse", "done"} =>
             /\ 1 \in UsedSet
             /\ Cardinality(UsedSet) - 1 <= Len(sequences) - 1)
    /\ <>(pc \in {"done", "error"})

\* a cycle with a repeated sequence: [1,2] takes [2,1] and then the second [2,1]
\* reversed; the loop stops after 2 extensions with 3 sequences
C26_Witness ==
    /\ pc = "leftover"
    /\ sequences = <<<<1, 2>>, <<2, 1>>, <<2, 1>>>>
    /\ used = <<TRUE, TRUE, TRUE>>
    /\ chained = <<1, 2, 1, 2>>

\* ---------------------------------------------------------------- claim C27
\* the four values of base_speed
BaseSpeeds == {105000, 104500, 102000, 99000}

LatestNotAfter(e, t) ==
    \E j \in 1..Len(data2) :
       /\ e = data2[j]
       /\ data2[j][1] <= t
       /\ \A m \in (j + 1)..Len(data2) : data2[m][1] > t

\* C24: for non-empty sorted lists the returned list is as long as data1 and its
\* k-th entry is the latest entry of data2 whose timestamp is not after that of
\* data1[k], for every k.
C24_LatestNotAfterEach ==
    (spc = "done" /\ data1 /= <<>> /\ data2 /= <<>>) =>
        /\ Len(result) = Len(data1)
        /\ \A k \in 1..Len(data1) : LatestNotAfter(result[k], data1[k][1])

\* ---------------------------------------------------------------- claim C23
\* C23: with an edit to undo, the key z, with or without Ctrl, gives back the
\* positions and speeds that held before the most recent edit, and with an undone
\* edit to redo, the key y, with or without Ctrl, gives back those undone.
C23_ZUndoesYRedoes ==
    fig_open =>
        \A c \in Cursor :
            /\ undo_stack /= <<>> =>
                  \A key \in {"z", "ctrl+z"} :
                      /\ on_key(Self, key, c, TRUE).xy = Last(undo_stack)[1]
                      /\ on_key(Self, key, c, TRUE).sp_mps = Last(undo_stack)[2]
            /\ redo_stack /= <<>> =>
                  \A key \in {"y", "ctrl+y"} :
                      /\ on_key(Self, key, c, TRUE).xy = Last(redo_stack)[1]
                      /\ on_key(Self, key, c, TRUE).sp_mps = Last(redo_stack)[2]

\* ---------------------------------------------------------------- claim C28
\* C28: selected_idx is None or the index of a point of the current array, and no
\* speed edit ends in an index error.
C28_SelectedIdxValid ==
    /\ selected_idx /= NoIdx => selected_idx \in 1..Len(xy)
    /\ fig_open =>
          \A c \in Cursor :
              /\ \A key \in {"[", "]", "{", "}"} : on_key(Self, key, c, TRUE).exc = ""
              /\ \A button \in {"up", "down"} : on_scroll(Self, button, c).exc = ""

\* ---------------------------------------------------------------- claim C29
\* C29: while a drag is in progress dragging_idx is the index of a point of the
\* current array.
C29_DraggingIdxValid ==
    (pressed /\ dragging_idx /= NoIdx) => dragging_idx \in 1..Len(xy)

\* ---------------------------------------------------------------- claim C30
\* the editor after each event that may start an edit: a press, a delete key, a
\* speed key, a scroll
AfterEditEvents ==
    {on_press(Self, button, c) : button \in {1, 3}, c \in Cursor}
        \cup {on_key(Self, key, c, TRUE) : key \in {"delete", "[", "]", "{", "}"}, c \in Cursor}
        \cup {on_scroll(Self, button, c) : button \in {"up", "down"}, c \in Cursor}

\* the callback made an edit: it saved a snapshot for undo
Edited(r) == r.undo_stack /= undo_stack

\* C30: with a snapshot to undo, Ctrl+Z and then Ctrl+Y give back the positions and
\* the speeds that held before and the two history stacks as they were; every edit
\* (drag start, add, delete, speed change) leaves the redo stack empty, and Ctrl+Y
\* after it changes nothing.
C30_UndoRedoInverse ==
    fig_open =>
        /\ undo_stack /= <<>> =>
              \A c \in Cursor :
                  LET u == on_key(Self, "ctrl+z", c, TRUE)
                      r == on_key(u, "ctrl+y", c, TRUE)
                  IN /\ Len(u.undo_stack) = Len(undo_stack) - 1
                     /\ Len(u.redo_stack) = Len(redo_stack) + 1
                     /\ r.xy = xy
                     /\ r.sp_mps = sp_mps
                     /\ r.undo_stack = undo_stack
                     /\ r.redo_stack = redo_stack
        /\ \A r \in AfterEditEvents :
              Edited(r) =>
                  /\ r.redo_stack = <<>>
                  /\ \A c \in Cursor : on_key(r, "ctrl+y", c, TRUE) = r

\* an edit was undone and another is left to undo; undoing it changes the points
C30_Witness ==
    /\ fig_open
    /\ Len(undo_stack) = 1
    /\ Len(redo_stack) = 1
    /\ Last(undo_stack)[1] /= xy
    /\ Last(redo_stack)[1] /= xy
    /\ \E r \in AfterEditEvents : Edited(r) /\ r.xy /= xy

====
